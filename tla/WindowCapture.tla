---------------------------- MODULE WindowCapture ----------------------------
(***************************************************************************)
(* Capture of a window, or of whichever window has the focus, through the  *)
(* X composite extension (capture/xcomposite.c, window_texture.c).         *)
(*                                                                         *)
(* The X server gives a redirected window a new pixmap whenever it is      *)
(* mapped or resized; the capture holds an EGL image of the pixmap it has  *)
(* named, which keeps its last content when the window gets another one.   *)
(* What tells the capture is events, which it selects, reads once per turn *)
(* of the main loop, and acts on when the window was left alone for a      *)
(* second.  Its requests to the server are separate steps: anything may    *)
(* happen to the window in between.                                        *)
(***************************************************************************)
EXTENDS Naturals, Sequences

CONSTANTS
    Windows,      \* windows of the X server
    NoWindow,     \* None
    Target,       \* the window of -w, when it is not "focused"
    MaxWindowChanges    \* bound: what happens to windows and focus

ASSUME WindowAssumption ==
    /\ Target \in Windows
    /\ NoWindow \notin Windows
    /\ MaxWindowChanges \in Nat

VARIABLES
    alive,        \* windows that exist
    pixmap,       \* each window's pixmap, 0: not viewable
    size,         \* each window's size
    focused,      \* _NET_ACTIVE_WINDOW
    selected,     \* windows whose events the capture has selected
    events,       \* events on their way to the capture
    changes,      \* what has happened so far
    follow,       \* params.follow_focused
    window_turn,  \* where the capture is
    window,
    window_size,
    window_resized,
    elapsed,      \* a second has passed since window_resize_timer was set
    init_new_window,
    follow_focused_initialized,
    should_stop,
    clear_background,
    texture,      \* the WindowTexture
    window_frame, \* window and pixmap in the last frame
    raced         \* history: resized before its events were selected

xserver == <<alive, pixmap, size, focused, changes>>
target == <<window, window_size, follow_focused_initialized>>
flags == <<window_resized, elapsed, init_new_window, should_stop,
           clear_background>>

windowVars == <<xserver, selected, events, follow, window_turn, target, flags,
                texture, window_frame, raced>>

Sizes == 1 .. 2
Over == {"failed", "stopped"}
NoTexture == [redirected |-> FALSE, id |-> "none", of |-> 0]
Nothing == <<NoWindow, 0>>

(* The window the user sees recorded.                                      *)
Wanted == IF follow THEN focused ELSE Target

WindowInit ==
    /\ alive = Windows
    /\ pixmap = [w \in Windows |-> 1]
    /\ size = [w \in Windows |-> 1]
    /\ focused \in Windows
    /\ selected = {} /\ events = <<>> /\ changes = 0
    /\ follow \in BOOLEAN
    /\ window_turn = "attributes"
    /\ window = NoWindow /\ window_size = 0
    /\ window_resized = FALSE /\ elapsed = FALSE
    /\ init_new_window = FALSE /\ follow_focused_initialized = FALSE
    /\ should_stop = FALSE /\ clear_background = FALSE
    /\ texture = NoTexture
    /\ window_frame = Nothing
    /\ raced = FALSE

-----------------------------------------------------------------------------
(* The X server and its other clients.                                     *)

Events(w, seq) == IF w \in selected THEN events \o seq ELSE events

Changes(w) ==
    /\ changes < MaxWindowChanges
    /\ w \in alive
    /\ changes' = changes + 1
    /\ UNCHANGED <<selected, follow, window_turn, target, flags, texture,
                   window_frame>>

(* A resize reallocates the pixmap; it exposes the window or does not.     *)
Resize(w) ==
    /\ Changes(w)
    /\ pixmap[w] # 0
    /\ size' = [size EXCEPT ![w] = 3 - @]
    /\ pixmap' = [pixmap EXCEPT ![w] = changes + 2]
    /\ LET configured == [type |-> "Configure", window |-> w,
                          size |-> size'[w]]
           exposed == [type |-> "Expose", window |-> w]
       IN events' \in {Events(w, <<configured>>),
                       Events(w, <<configured, exposed>>)}
    /\ raced' = (raced \/ (window_turn = "select" /\ w = Target))
    /\ UNCHANGED <<alive, focused>>

Unmap(w) ==
    /\ Changes(w)
    /\ pixmap[w] # 0
    /\ pixmap' = [pixmap EXCEPT ![w] = 0]
    /\ UNCHANGED <<alive, size, focused, events, raced>>

Map(w) ==
    /\ Changes(w)
    /\ pixmap[w] = 0
    /\ pixmap' = [pixmap EXCEPT ![w] = changes + 2]
    /\ events' = Events(w, <<[type |-> "Expose", window |-> w]>>)
    /\ UNCHANGED <<alive, size, focused, raced>>

Destroy(w) ==
    /\ Changes(w)
    /\ alive' = alive \ {w}
    /\ pixmap' = [pixmap EXCEPT ![w] = 0]
    /\ events' = Events(w, <<[type |-> "Destroy", window |-> w]>>)
    /\ UNCHANGED <<size, focused, raced>>

(* The capture selects property changes of the root window with its first  *)
(* window's events.                                                        *)
FocusChanges(w) ==
    /\ Changes(w)
    /\ w # focused
    /\ focused' = w
    /\ events' = IF follow /\ window_turn \notin {"attributes", "select"}
                 THEN Append(events, [type |-> "Property", window |-> w])
                 ELSE events
    /\ UNCHANGED <<alive, pixmap, size, raced>>

-----------------------------------------------------------------------------
(* WindowTexture.                                                          *)

Viewable(w) == w \in alive /\ pixmap[w] # 0

(* window_texture_on_resize: naming the pixmap of a window that has none   *)
(* fails, and the cleanup deletes the texture but keeps its name.          *)
OnResize(t, w) ==
    IF Viewable(w)
    THEN [t EXCEPT !.id = "live", !.of = pixmap[w]]
    ELSE [t EXCEPT !.id = IF @ = "none" THEN @ ELSE "deleted", !.of = 0]

(* window_texture_deinit and window_texture_init.                          *)
Renewed(w) == OnResize([NoTexture EXCEPT !.redirected = TRUE], w)

-----------------------------------------------------------------------------
(* gsr_capture_xcomposite_start, in the order of its requests.             *)

StartAttributes ==
    /\ window_turn = "attributes"
    /\ window' = Wanted
    /\ IF Wanted \in alive
       THEN window_size' = size[Wanted] /\ window_turn' = "select"
       ELSE IF follow
       THEN /\ window_size' \in 0 .. 2    \* uninitialised
            /\ window_turn' = "select"
       ELSE window_size' = window_size /\ window_turn' = "failed"
    /\ UNCHANGED <<xserver, selected, events, follow, flags, texture,
                   window_frame, follow_focused_initialized, raced>>

StartSelect ==
    /\ window_turn = "select"
    /\ selected' = {window} \cap alive
    /\ window_turn' = "texture"
    /\ UNCHANGED <<xserver, events, follow, target, flags, texture,
                   window_frame, raced>>

StartTexture ==
    /\ window_turn = "texture"
    /\ texture' = Renewed(window)
    /\ IF Viewable(window) \/ follow
       THEN elapsed' = FALSE /\ window_turn' = "events"
       ELSE elapsed' = elapsed /\ window_turn' = "failed"
    /\ UNCHANGED <<xserver, selected, events, follow, target, window_resized,
                   init_new_window, should_stop, clear_background,
                   window_frame, raced>>

-----------------------------------------------------------------------------
(* A turn of the main loop: all events, the tick, a frame.                 *)

(* Mutant: an exposed window has the pixmap it had.                        *)
ReallocatesWhenResized(e) == e.type = "Configure" /\ e.size # window_size

(* Events after which the window is taken to have a new pixmap.            *)
Reallocates(e) ==
    \/ e.type = "Expose"
    \/ e.type = "Configure" /\ e.size # window_size

(* gsr_capture_xcomposite_on_event.                                        *)
OnEvent ==
    /\ window_turn = "events"
    /\ events # <<>>
    /\ events' = Tail(events)
    /\ LET e == Head(events)
           resized == e.window = window /\ Reallocates(e)
       IN /\ should_stop' = (should_stop \/ (e.type = "Destroy" /\ ~follow
                                              /\ e.window = window))
          /\ window_size' = IF resized /\ e.type = "Configure"
                            THEN e.size ELSE window_size
          /\ window_resized' = (window_resized \/ resized)
          /\ elapsed' = (elapsed /\ ~resized)
          /\ init_new_window' = (init_new_window
                                  \/ (e.type = "Property" /\ follow))
    /\ UNCHANGED <<xserver, selected, follow, window_turn, window, texture,
                   window_frame, follow_focused_initialized, clear_background,
                   raced>>

(* gsr_capture_xcomposite_tick: the window that has the focus now.         *)
Tick ==
    /\ window_turn = "events"
    /\ events = <<>>
    /\ init_new_window' = FALSE
    /\ LET look == init_new_window \/ (follow /\ ~follow_focused_initialized)
       IN IF look /\ (focused # window \/ ~follow_focused_initialized)
          THEN /\ follow_focused_initialized' = TRUE
               /\ selected' = ((selected \ {window}) \cup {focused}) \cap alive
               /\ window' = focused
               /\ window_turn' = "new"
          ELSE /\ window_turn' = "resize"
               /\ UNCHANGED <<follow_focused_initialized, selected, window>>
    /\ UNCHANGED <<xserver, events, follow, window_size, window_resized,
                   elapsed, should_stop, clear_background, texture,
                   window_frame, raced>>

NewWindowSize ==
    /\ window_turn = "new"
    /\ window_size' = IF window \in alive THEN size[window] ELSE 0
    /\ window_turn' = "renew"
    /\ UNCHANGED <<xserver, selected, events, follow, window, flags, texture,
                   window_frame, follow_focused_initialized, raced>>

NewWindowTexture ==
    /\ window_turn = "renew"
    /\ texture' = Renewed(window)
    /\ window_resized' = FALSE
    /\ clear_background' = TRUE
    /\ window_turn' = "resize"
    /\ UNCHANGED <<xserver, selected, events, follow, target, elapsed,
                   init_new_window, should_stop, window_frame, raced>>

(* The rest of the tick: a window that was left alone for a second.        *)
TickResized ==
    /\ window_turn = "resize"
    /\ window_turn' = "capture"
    /\ IF window_resized /\ elapsed
       THEN /\ window_resized' = FALSE
            /\ texture' = OnResize(texture, window)
            /\ clear_background' = (clear_background \/ Viewable(window))
       ELSE UNCHANGED <<window_resized, texture, clear_background>>
    /\ UNCHANGED <<xserver, selected, events, follow, target, elapsed,
                   init_new_window, should_stop, window_frame, raced>>

Elapse ==
    /\ window_turn \notin Over
    /\ ~elapsed
    /\ elapsed' = TRUE
    /\ UNCHANGED <<xserver, selected, events, follow, window_turn, target,
                   texture, window_resized, init_new_window, should_stop,
                   clear_background, window_frame, raced>>

(* gsr_capture_xcomposite_should_stop, or a frame of what the texture has. *)
CaptureWindow ==
    /\ window_turn = "capture"
    /\ IF should_stop
       THEN /\ window_turn' = "stopped"
            /\ UNCHANGED <<window_frame, clear_background>>
       ELSE /\ window_turn' = "events"
            /\ clear_background' = FALSE
            /\ window_frame' = IF texture.id = "live"
                               THEN <<window, texture.of>> ELSE Nothing
    /\ UNCHANGED <<xserver, selected, events, follow, target, window_resized,
                   elapsed, init_new_window, should_stop, texture, raced>>

WindowStep ==
    \/ StartAttributes \/ StartSelect \/ StartTexture
    \/ OnEvent \/ Tick \/ NewWindowSize \/ NewWindowTexture \/ TickResized
    \/ CaptureWindow

WindowNext ==
    \/ WindowStep
    \/ Elapse
    \/ \E w \in Windows :
        Resize(w) \/ Unmap(w) \/ Map(w) \/ Destroy(w) \/ FocusChanges(w)

WindowFairness ==
    /\ WF_windowVars(WindowStep)
    /\ WF_windowVars(Elapse)
WindowSpec == WindowInit /\ [][WindowNext]_windowVars /\ WindowFairness

-----------------------------------------------------------------------------
(* Properties.                                                             *)

(* An image is only kept of a window that is redirected, and no texture is *)
(* deleted but by a resize that failed.                                    *)
WindowTypeOK ==
    /\ alive \subseteq Windows /\ selected \subseteq Windows
    /\ pixmap \in [Windows -> 0 .. MaxWindowChanges + 1]
    /\ size \in [Windows -> Sizes] /\ window_size \in 0 .. 2
    /\ focused \in Windows /\ window \in Windows \cup {NoWindow}
    /\ {follow, window_resized, elapsed, init_new_window, should_stop, raced,
        follow_focused_initialized, clear_background} \subseteq BOOLEAN
    /\ window_turn \in {"attributes", "select", "texture", "events", "new",
                        "renew", "resize", "capture"} \cup Over
    /\ texture \in [redirected : BOOLEAN, id : {"none", "live", "deleted"},
                    of : 0 .. MaxWindowChanges + 1]
    /\ texture.of # 0 => texture.redirected /\ texture.id = "live"

(* xcomposite.c: once windows and focus are left alone, the frames show    *)
(* what the wanted window shows, however it was resized, hidden and shown  *)
(* before; and when the one window that is recorded is destroyed, the      *)
(* recording stops.  A window that was resized while the capture started,  *)
(* between the two requests that ask for its size and for its events, is   *)
(* excepted.                                                               *)
CaptureFollowsWindow ==
    <>[](\/ window_turn \in Over
         \/ raced
         \/ /\ Viewable(Wanted) => window_frame = <<Wanted, pixmap[Wanted]>>
            /\ follow \/ Target \in alive)
=============================================================================
