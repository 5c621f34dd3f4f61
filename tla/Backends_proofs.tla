--------------------------- MODULE Backends_proofs ---------------------------
(***************************************************************************)
(* What is proved of the parts a recording runs on, for every value of     *)
(* their constants, and of the start-up, captures, damage tracker, sound   *)
(* client and overclocking together: the invariants of each part are those *)
(* of Backends' Spec.  Every part has one inductive invariant, named after *)
(* it (WindowIInv, ...); those of the KMS client and server, of the        *)
(* capture of a monitor and of damage tracking are in Kms_proofs and       *)
(* Damage_proofs.                                                          *)
(***************************************************************************)
EXTENDS Backends, Kms_proofs, Damage_proofs, WellFoundedInduction, TLAPS

-----------------------------------------------------------------------------
(* The start-up.                                                           *)

Unread == {"options", "inputs", "display"}
Opened == {"gpu", "modes", "output", "codecs", "query", "capture", "start",
           "recording"}
Selected == {"query", "capture", "start", "recording"}

(* What each stage has settled for those after it: the display that hdr    *)
(* has, the GPU that is overclocked, ...                                   *)
SessionIsFit ==
    /\ stage \in Unread => ~overclocked /\ ~content
    /\ stage \in Opened => (video_codec \in Hdr => wayland)
    /\ stage \in Opened /\ overclocked => nvidia /\ ~wayland
    /\ stage \in {"gpu", "modes"} => ~content
    /\ stage \in Opened /\ content => source = "portal" \/ ~wayland
    /\ stage = "gpu" => ~overclocked

(* ...codecs the container holds and the capture can record, ...           *)
CodecsAreFit ==
    /\ stage # "options" => audio_codec \in {"opus", "aac"}
    /\ stage \in Selected =>
        /\ container = "flv" \/ software => video_codec = "h264"
        /\ container = "m3u8" => video_codec \notin Av1
        /\ container = "webm" /\ requested = "auto" => video_codec = "vp8"
        /\ container = "webm" => audio_codec = "opus"
        /\ audio_codec = "opus" => container \in {"mp4", "mkv", "webm"}
        /\ video_codec \in Hdr => source # "portal"

(* ...the capture there is for the source and the session, and a track.    *)
CaptureIsFit ==
    /\ stage \in Opened => source \in Sources
    /\ stage \in {"start", "recording"} =>
        \/ source = "window" /\ ~wayland /\ capture_api = "xcomposite"
        \/ source = "portal" /\ wayland /\ capture_api = "portal"
        \/ source = "monitor"
             /\ capture_api = IF UsesDrm THEN "kms" ELSE "nvfbc"
    /\ stage = "recording" /\ destination = "stream" => tracks # "none"

StartupBooleans ==
    {software, wayland, nvidia, overclocked, content} \subseteq BOOLEAN

StartupIInv ==
    /\ StartupTypeOK
    /\ StartupBooleans
    /\ SessionIsFit
    /\ CodecsAreFit
    /\ CaptureIsFit
-----------------------------------------------------------------------------
LEMMA StartupInitInvariant == StartupInit => StartupIInv
BY StartupAssumption
   DEF StartupInit, StartupIInv, StartupTypeOK, StartupBooleans, SessionIsFit,
       CodecsAreFit, CaptureIsFit, Opened, Selected, Unread

LEMMA StartupStepInvariant ==
    ASSUME StartupIInv, [StartupNext]_startupVars PROVE StartupIInv'
<1>. USE StartupAssumption
         DEF StartupIInv, codecs, session, muxing, picked, Exits
<1>1. CASE ParseOptions
  <2>. USE <1>1 DEF ParseOptions
  <2>1. StartupTypeOK' /\ StartupBooleans'
    BY DEF StartupTypeOK, StartupBooleans
  <2>2. SessionIsFit'
    BY DEF SessionIsFit, Unread, Opened
  <2>3. CodecsAreFit'
    BY DEF CodecsAreFit, Selected
  <2>4. CaptureIsFit'
    BY DEF CaptureIsFit, Opened
  <2>. QED
    BY <2>1, <2>2, <2>3, <2>4
<1>2. CASE ParseInputs
  <2>. USE <1>2 DEF ParseInputs
  <2>1. StartupTypeOK' /\ StartupBooleans'
    BY DEF StartupTypeOK, StartupBooleans
  <2>2. SessionIsFit'
    BY DEF SessionIsFit, Unread, Opened
  <2>3. CodecsAreFit'
    BY DEF CodecsAreFit, Selected
  <2>4. CaptureIsFit'
    BY DEF CaptureIsFit, Opened
  <2>. QED
    BY <2>1, <2>2, <2>3, <2>4
<1>3. CASE OpenDisplay
  <2>. USE <1>3 DEF OpenDisplay
  <2>1. StartupTypeOK' /\ StartupBooleans'
    BY DEF StartupTypeOK, StartupBooleans, Hdr, Sources
  <2>2. SessionIsFit'
    BY DEF SessionIsFit, Unread, Opened, Hdr, Sources
  <2>3. CodecsAreFit'
    BY DEF CodecsAreFit, Selected, Hdr
  <2>4. CaptureIsFit'
    BY DEF CaptureIsFit, Opened, Sources
  <2>. QED
    BY <2>1, <2>2, <2>3, <2>4
<1>4. CASE LoadGpu
  <2>. USE <1>4 DEF LoadGpu
  <2>1. StartupTypeOK' /\ StartupBooleans'
    BY DEF StartupTypeOK, StartupBooleans
  <2>2. SessionIsFit'
    BY DEF SessionIsFit, Unread, Opened
  <2>3. CodecsAreFit'
    BY DEF CodecsAreFit, Selected
  <2>4. CaptureIsFit'
    BY DEF CaptureIsFit, Opened
  <2>. QED
    BY <2>1, <2>2, <2>3, <2>4
<1>5. CASE ParseModes
  <2>. USE <1>5 DEF ParseModes
  <2>1. StartupTypeOK' /\ StartupBooleans'
    BY DEF StartupTypeOK, StartupBooleans
  <2>2. SessionIsFit'
    BY DEF SessionIsFit, Unread, Opened
  <2>3. CodecsAreFit'
    BY DEF CodecsAreFit, Selected
  <2>4. CaptureIsFit'
    BY DEF CaptureIsFit, Opened
  <2>. QED
    BY <2>1, <2>2, <2>3, <2>4
<1>6. CASE ParseOutput
  <2>. USE <1>6 DEF ParseOutput
  <2>1. StartupTypeOK' /\ StartupBooleans'
    BY DEF StartupTypeOK, StartupBooleans
  <2>2. SessionIsFit'
    BY DEF SessionIsFit, Unread, Opened
  <2>3. CodecsAreFit'
    BY DEF CodecsAreFit, Selected
  <2>4. CaptureIsFit'
    BY DEF CaptureIsFit, Opened
  <2>. QED
    BY <2>1, <2>2, <2>3, <2>4
<1>7. CASE SelectCodecs
  <2>. USE <1>7 DEF SelectCodecs
  <2>1. StartupTypeOK' /\ StartupBooleans'
    BY DEF StartupTypeOK, StartupBooleans, ForContainer, ForPortal, Hdr
  <2>2. SessionIsFit'
    BY DEF SessionIsFit, Unread, Opened, ForContainer, ForPortal, Hdr, Av1
  <2>3. CodecsAreFit'
    BY DEF CodecsAreFit, Selected, AudioFallback, ForContainer, ForPortal,
           Hdr, Av1
  <2>4. CaptureIsFit'
    BY DEF CaptureIsFit, Opened
  <2>. QED
    BY <2>1, <2>2, <2>3, <2>4
<1>8. CASE PickVideoCodec
  <2>. USE <1>8 DEF PickVideoCodec
  <2>1. StartupTypeOK' /\ StartupBooleans'
    BY DEF StartupTypeOK, StartupBooleans, GoesOnWith, Hdr
  <2>2. SessionIsFit'
    BY DEF SessionIsFit, Unread, Opened, GoesOnWith, Hdr, Av1
  <2>3. CodecsAreFit'
    BY DEF CodecsAreFit, Selected, GoesOnWith, Hdr, Av1
  <2>4. CaptureIsFit'
    BY DEF CaptureIsFit, Opened
  <2>. QED
    BY <2>1, <2>2, <2>3, <2>4
<1>9. CASE CreateCapture
  <2>. USE <1>9 DEF CreateCapture
  <2>1. StartupTypeOK' /\ StartupBooleans'
    BY DEF StartupTypeOK, StartupBooleans, Sources
  <2>2. SessionIsFit'
    BY DEF SessionIsFit, Unread, Opened, Sources, UsesDrm
  <2>3. CodecsAreFit'
    BY DEF CodecsAreFit, Selected
  <2>4. CaptureIsFit'
    BY DEF CaptureIsFit, Opened, Sources, UsesDrm
  <2>. QED
    BY <2>1, <2>2, <2>3, <2>4
<1>10. CASE StartAll
  <2>. USE <1>10 DEF StartAll
  <2>1. StartupTypeOK' /\ StartupBooleans'
    BY DEF StartupTypeOK, StartupBooleans
  <2>2. SessionIsFit'
    BY DEF SessionIsFit, Unread, Opened, UsesDrm
  <2>3. CodecsAreFit'
    BY DEF CodecsAreFit, Selected
  <2>4. CaptureIsFit'
    BY DEF CaptureIsFit, Opened, UsesDrm
  <2>. QED
    BY <2>1, <2>2, <2>3, <2>4
<1>11. CASE UNCHANGED startupVars
  BY <1>11 DEF startupVars, StartupTypeOK, StartupBooleans, SessionIsFit,
               CodecsAreFit, CaptureIsFit, UsesDrm
<1>. QED
  BY <1>1, <1>2, <1>3, <1>4, <1>5, <1>6, <1>7, <1>8, <1>9, <1>10, <1>11
     DEF StartupNext

LEMMA StartupInvariant == StartupSpec => []StartupIInv
<1>. QED
  BY StartupInitInvariant, StartupStepInvariant, PTL DEF StartupSpec

(* What a start that has come so far has settled fits together.            *)
LEMMA StartupIsSafe == StartupIInv => CodecsFitContainer /\ CaptureFitsSession
<1>1. StartupIInv => CodecsFitContainer
  BY DEF StartupIInv, CodecsAreFit, CodecsFitContainer, Selected
<1>2. StartupIInv => CaptureFitsSession
  BY DEF StartupIInv, SessionIsFit, CodecsAreFit, CaptureIsFit,
         StartupBooleans, CaptureFitsSession, Opened, Selected, UsesDrm
<1>. QED
  BY <1>1, <1>2

(* Options, display and codecs keep to what they can be, for every set of  *)
(* codecs and containers (main.cpp).                                       *)
THEOREM StartupTypeCorrect == StartupSpec => []StartupTypeOK
<1>1. StartupIInv => StartupTypeOK
  BY DEF StartupIInv
<1>. QED
  BY <1>1, StartupInvariant, PTL

(* A recording has codecs its container can hold, whichever were asked for *)
(* and whichever the GPU has (main.cpp, select_video_codec_with_fallback). *)
THEOREM StartupCodecsFit == StartupSpec => []CodecsFitContainer
BY StartupIsSafe, StartupInvariant, PTL

(* A recording captures through what its session has, and only a start     *)
(* with hdr, content mode or overclocking that fits goes on (main.cpp,     *)
(* create_capture_impl).                                                   *)
THEOREM StartupCaptureFits == StartupSpec => []CaptureFitsSession
BY StartupIsSafe, StartupInvariant, PTL

-----------------------------------------------------------------------------
(* The capture of a window.                                                *)

(* The events a window or the root window sends.                           *)
WindowEvents ==
    [type : {"Configure"}, window : Windows, size : Sizes]
        \cup [type : {"Expose", "Destroy", "Property"}, window : Windows]

(* What the capture knows at each of its steps.                            *)
KnownAtStep ==
    /\ changes \in 0 .. MaxWindowChanges
    /\ \A w \in Windows : pixmap[w] <= changes + 1
    /\ events \in Seq(WindowEvents)
    /\ window_turn # "attributes" => window \in Windows
    /\ window_turn \notin {"attributes", "select", "texture"} \cup Over =>
          texture.redirected

WindowIInv == WindowTypeOK /\ KnownAtStep
-----------------------------------------------------------------------------
LEMMA WindowInitInvariant == WindowInit => WindowIInv
<1>. SUFFICES ASSUME WindowInit PROVE WindowIInv
  OBVIOUS
<1>1. WindowTypeOK
  <2>1. pixmap \in [Windows -> 0 .. MaxWindowChanges + 1]
          /\ size \in [Windows -> Sizes] /\ window_size \in 0 .. 2
    BY WindowAssumption DEF WindowInit, Sizes
  <2>2. texture \in [redirected : BOOLEAN, id : {"none", "live", "deleted"},
                     of : 0 .. MaxWindowChanges + 1] /\ texture.of = 0
    BY WindowAssumption DEF WindowInit, NoTexture
  <2>. QED
    BY <2>1, <2>2, WindowAssumption DEF WindowInit, WindowTypeOK
<1>2. KnownAtStep
  <2>1. events \in Seq(WindowEvents)
    BY DEF WindowInit
  <2>. QED
    BY <2>1, WindowAssumption DEF WindowInit, KnownAtStep
<1>. QED
  BY <1>1, <1>2 DEF WindowIInv

(* The server's other clients change a window or the focus: the pixmap is  *)
(* numbered by the change, and the events are of a known kind.             *)
LEMMA ChangesStep ==
    ASSUME WindowIInv, NEW w \in Windows, Changes(w),
           alive' \subseteq alive, focused' \in Windows, raced' \in BOOLEAN,
           size' \in [Windows -> Sizes],
           events' \in Seq(WindowEvents),
           \/ pixmap' = pixmap
           \/ \E p \in {0, changes + 2} : pixmap' = [pixmap EXCEPT ![w] = p]
    PROVE  WindowIInv'
<1>1. changes' \in 0 .. MaxWindowChanges /\ changes' = changes + 1
        /\ changes \in Nat
  BY WindowAssumption DEF WindowIInv, KnownAtStep, Changes
<1>2. pixmap \in [Windows -> 0 .. MaxWindowChanges + 1]
        /\ \A v \in Windows : pixmap[v] <= changes + 1
  BY DEF WindowIInv, WindowTypeOK, KnownAtStep
<1>3. pixmap' \in [Windows -> 0 .. MaxWindowChanges + 1]
        /\ \A v \in Windows : pixmap'[v] <= changes' + 1
  <2>1. CASE pixmap' = pixmap
    BY <1>1, <1>2, <2>1, WindowAssumption
  <2>2. CASE \E p \in {0, changes + 2} : pixmap' = [pixmap EXCEPT ![w] = p]
    <3>1. PICK p \in {0, changes + 2} : pixmap' = [pixmap EXCEPT ![w] = p]
      BY <2>2
    <3>2. p \in 0 .. MaxWindowChanges + 1 /\ p <= changes' + 1
      BY <1>1, WindowAssumption
    <3>. QED
      BY <1>1, <1>2, <3>1, <3>2, WindowAssumption
  <2>. QED
    BY <2>1, <2>2
<1>4. UNCHANGED <<selected, follow, window_turn, target, flags, texture,
                  window_frame>>
  BY DEF Changes
<1>5. WindowTypeOK'
  BY <1>3, <1>4 DEF WindowIInv, WindowTypeOK, target, flags
<1>6. KnownAtStep'
  BY <1>1, <1>3, <1>4 DEF WindowIInv, KnownAtStep, target
<1>. QED
  BY <1>5, <1>6 DEF WindowIInv

LEMMA EventsAreEvents ==
    ASSUME events \in Seq(WindowEvents), NEW w \in Windows,
           NEW seq \in Seq(WindowEvents)
    PROVE  Events(w, seq) \in Seq(WindowEvents)
BY DEF Events

LEMMA ServerStep ==
    ASSUME WindowIInv, NEW w \in Windows,
           Resize(w) \/ Unmap(w) \/ Map(w) \/ Destroy(w) \/ FocusChanges(w)
    PROVE  WindowIInv'
<1>1. /\ events \in Seq(WindowEvents) /\ size \in [Windows -> Sizes]
      /\ focused \in Windows /\ raced \in BOOLEAN /\ alive \subseteq alive
  BY DEF WindowIInv, WindowTypeOK, KnownAtStep
<1>2. /\ [type |-> "Expose", window |-> w] \in WindowEvents
      /\ [type |-> "Destroy", window |-> w] \in WindowEvents
      /\ [type |-> "Property", window |-> w] \in WindowEvents
  BY DEF WindowEvents
<1>3. CASE Resize(w)
  <2>1. Changes(w) /\ pixmap' = [pixmap EXCEPT ![w] = changes + 2]
          /\ alive' = alive /\ focused' = focused
          /\ size' = [size EXCEPT ![w] = 3 - @]
    BY <1>3 DEF Resize
  <2>2. size' \in [Windows -> Sizes]
    BY <1>1, <2>1 DEF Sizes
  <2>3. raced' \in BOOLEAN
    BY <1>3, Zenon DEF Resize
  <2>4. events' \in Seq(WindowEvents)
    <3>. DEFINE configured == [type |-> "Configure", window |-> w,
                               size |-> size'[w]]
                exposed == [type |-> "Expose", window |-> w]
    <3>1. configured \in WindowEvents
      BY <2>2 DEF WindowEvents
    <3>2. <<configured>> \in Seq(WindowEvents)
            /\ <<configured, exposed>> \in Seq(WindowEvents)
      BY <1>2, <3>1
    <3>3. events' \in {Events(w, <<configured>>),
                       Events(w, <<configured, exposed>>)}
      BY <1>3, Zenon DEF Resize
    <3>. QED
      BY <1>1, <3>2, <3>3, EventsAreEvents, Zenon
  <2>. QED
    BY <1>1, <2>1, <2>2, <2>3, <2>4, ChangesStep
<1>4. CASE Unmap(w)
  BY <1>1, <1>4, ChangesStep DEF Unmap
<1>5. CASE Map(w)
  <2>1. <<[type |-> "Expose", window |-> w]>> \in Seq(WindowEvents)
    BY <1>2
  <2>2. events' \in Seq(WindowEvents)
    BY <1>1, <1>5, <2>1, EventsAreEvents, Zenon DEF Map
  <2>. QED
    BY <1>1, <1>5, <2>2, ChangesStep DEF Map
<1>6. CASE Destroy(w)
  <2>1. <<[type |-> "Destroy", window |-> w]>> \in Seq(WindowEvents)
    BY <1>2
  <2>2. events' \in Seq(WindowEvents)
    BY <1>1, <1>6, <2>1, EventsAreEvents, Zenon DEF Destroy
  <2>. QED
    BY <1>1, <1>6, <2>2, ChangesStep DEF Destroy
<1>7. CASE FocusChanges(w)
  <2>1. events' \in Seq(WindowEvents)
    BY <1>1, <1>2, <1>7 DEF FocusChanges
  <2>. QED
    BY <1>1, <1>7, <2>1, ChangesStep DEF FocusChanges
<1>. QED
  BY <1>3, <1>4, <1>5, <1>6, <1>7

-----------------------------------------------------------------------------
(* What the window's texture is once its pixmap was asked for.             *)
Textures ==
    {t \in [redirected : BOOLEAN, id : {"none", "live", "deleted"},
            of : 0 .. MaxWindowChanges + 1] :
        t.of # 0 => t.redirected /\ t.id = "live"}

LEMMA ResizedTexture ==
    ASSUME WindowIInv, NEW t \in Textures, t.redirected, NEW w \in Windows
    PROVE  OnResize(t, w) \in Textures /\ OnResize(t, w).redirected
<1>1. pixmap[w] \in 0 .. MaxWindowChanges + 1
        /\ 0 \in 0 .. MaxWindowChanges + 1
  BY WindowAssumption DEF WindowIInv, WindowTypeOK
<1>2. CASE Viewable(w)
  BY <1>1, <1>2 DEF OnResize, Textures
<1>3. CASE ~Viewable(w)
  BY <1>1, <1>3 DEF OnResize, Textures
<1>. QED
  BY <1>2, <1>3

LEMMA RenewedTexture ==
    ASSUME WindowIInv, NEW w \in Windows
    PROVE  Renewed(w) \in Textures /\ Renewed(w).redirected
<1>. DEFINE t == [NoTexture EXCEPT !.redirected = TRUE]
<1>1. t \in Textures /\ t.redirected
  <2>. DEFINE S == [redirected : BOOLEAN, id : {"none", "live", "deleted"},
                    of : 0 .. MaxWindowChanges + 1]
  <2>1. NoTexture \in S /\ NoTexture.of = 0
    BY WindowAssumption DEF NoTexture
  <2>. HIDE DEF S
  <2>2. t \in S
    BY <2>1, Zenon DEF S
  <2>3. t.redirected /\ t.of = 0
    BY <2>1, Zenon DEF S
  <2>. QED
    BY <2>2, <2>3 DEF Textures, S
<1>. HIDE DEF t
<1>2. Renewed(w) = OnResize(t, w)
  BY DEF Renewed, t
<1>. QED
  BY <1>1, <1>2, ResizedTexture

LEMMA WindowStartStep ==
    ASSUME WindowIInv, StartAttributes \/ StartSelect \/ StartTexture
    PROVE  WindowIInv'
<1>. USE DEF Over, xserver, target, flags
<1>1. CASE StartAttributes
  <2>1. Wanted \in Windows
    BY WindowAssumption DEF Wanted, WindowIInv, WindowTypeOK
  <2>2. window_size' \in 0 .. 2
    BY <1>1, <2>1 DEF StartAttributes, WindowIInv, WindowTypeOK, Sizes
  <2>3. /\ window' = Wanted /\ window_turn' \in {"select", "failed"}
        /\ UNCHANGED <<xserver, selected, events, follow, flags, texture,
                       window_frame, follow_focused_initialized, raced>>
    BY <1>1 DEF StartAttributes
  <2>4. WindowTypeOK'
    BY <2>1, <2>2, <2>3 DEF WindowIInv, WindowTypeOK
  <2>5. KnownAtStep'
    BY <2>1, <2>3 DEF WindowIInv, KnownAtStep
  <2>. QED
    BY <2>4, <2>5 DEF WindowIInv
<1>2. CASE StartSelect
  BY <1>2 DEF StartSelect, WindowIInv, WindowTypeOK, KnownAtStep
<1>3. CASE StartTexture
  <2>1. texture' \in Textures /\ texture'.redirected
    BY <1>3, RenewedTexture DEF StartTexture, WindowIInv, KnownAtStep
  <2>2. elapsed' \in BOOLEAN
    BY <1>3 DEF StartTexture, WindowIInv, WindowTypeOK
  <2>. QED
    BY <1>3, <2>1, <2>2
       DEF StartTexture, Textures, WindowIInv, WindowTypeOK, KnownAtStep
<1>. QED
  BY <1>1, <1>2, <1>3

LEMMA LoopTurnStep ==
    ASSUME WindowIInv,
           \/ OnEvent \/ Tick \/ NewWindowSize \/ NewWindowTexture
           \/ TickResized \/ Elapse \/ CaptureWindow
    PROVE  WindowIInv'
<1>. USE DEF Over, xserver, target, flags
<1>1. CASE OnEvent
  <2>. DEFINE e == Head(events)
              resized == e.window = window /\ Reallocates(e)
  <2>1. events' \in Seq(WindowEvents) /\ e \in WindowEvents
    BY <1>1 DEF OnEvent, WindowIInv, KnownAtStep
  <2>2. /\ should_stop' \in BOOLEAN /\ window_resized' \in BOOLEAN
        /\ elapsed' \in BOOLEAN /\ init_new_window' \in BOOLEAN
    BY <1>1, Zenon DEF OnEvent
  <2>3. window_size' \in 0 .. 2
    <3>1. window_size' = IF resized /\ e.type = "Configure"
                         THEN e.size ELSE window_size
      BY <1>1, Zenon DEF OnEvent
    <3>2. e.type = "Configure" => e.size \in 0 .. 2
      BY <2>1 DEF WindowEvents, Sizes
    <3>3. window_size \in 0 .. 2
      BY DEF WindowIInv, WindowTypeOK
    <3>. QED
      BY <3>1, <3>2, <3>3, Zenon
  <2>4. UNCHANGED <<xserver, selected, follow, window_turn, window, texture,
                    window_frame, follow_focused_initialized,
                    clear_background, raced>>
    BY <1>1, Zenon DEF OnEvent
  <2>. QED
    BY <2>1, <2>2, <2>3, <2>4 DEF WindowIInv, WindowTypeOK, KnownAtStep
<1>2. CASE Tick
  BY <1>2 DEF Tick, WindowIInv, WindowTypeOK, KnownAtStep
<1>3. CASE NewWindowSize
  <2>1. window_size' \in 0 .. 2
    BY <1>3 DEF NewWindowSize, WindowIInv, WindowTypeOK, KnownAtStep, Sizes
  <2>. QED
    BY <1>3, <2>1 DEF NewWindowSize, WindowIInv, WindowTypeOK, KnownAtStep
<1>4. CASE NewWindowTexture
  <2>1. texture' \in Textures /\ texture'.redirected
    BY <1>4, RenewedTexture DEF NewWindowTexture, WindowIInv, KnownAtStep
  <2>. QED
    BY <1>4, <2>1
       DEF NewWindowTexture, Textures, WindowIInv, WindowTypeOK, KnownAtStep
<1>5. CASE TickResized
  <2>1. window \in Windows /\ texture \in Textures /\ texture.redirected
    BY <1>5 DEF TickResized, Textures, WindowIInv, WindowTypeOK, KnownAtStep
  <2>2. texture' \in Textures /\ texture'.redirected
    <3>1. texture' \in {OnResize(texture, window), texture}
      BY <1>5 DEF TickResized
    <3>. QED
      BY <2>1, <3>1, ResizedTexture
  <2>3. window_resized' \in BOOLEAN /\ clear_background' \in BOOLEAN
    BY <1>5 DEF TickResized, WindowIInv, WindowTypeOK
  <2>. QED
    BY <1>5, <2>2, <2>3
       DEF TickResized, Textures, WindowIInv, WindowTypeOK, KnownAtStep
<1>6. CASE Elapse
  BY <1>6 DEF Elapse, WindowIInv, WindowTypeOK, KnownAtStep
<1>7. CASE CaptureWindow
  BY <1>7 DEF CaptureWindow, WindowIInv, WindowTypeOK, KnownAtStep
<1>. QED
  BY <1>1, <1>2, <1>3, <1>4, <1>5, <1>6, <1>7

LEMMA WindowStepInvariant ==
    WindowIInv /\ [WindowNext]_windowVars => WindowIInv'
<1>. SUFFICES ASSUME WindowIInv, [WindowNext]_windowVars PROVE WindowIInv'
  OBVIOUS
<1>1. CASE WindowNext
  BY <1>1, ServerStep, WindowStartStep, LoopTurnStep DEF WindowNext, WindowStep
<1>2. CASE UNCHANGED windowVars
  BY <1>2 DEF windowVars, xserver, target, flags, WindowIInv, WindowTypeOK,
              KnownAtStep, Over
<1>. QED
  BY <1>1, <1>2

(* What the window capture keeps has its type, and an image is kept only   *)
(* of a window that is redirected, whatever happens to windows and focus   *)
(* between its requests (window_texture.c).                                *)
THEOREM WindowTypeCorrect == WindowSpec => []WindowTypeOK
<1>1. WindowIInv => WindowTypeOK
  BY DEF WindowIInv
<1>. QED
  BY <1>1, WindowInitInvariant, WindowStepInvariant, PTL DEF WindowSpec

-----------------------------------------------------------------------------
(* The capture through NvFBC.                                              *)

(* The parts of the type invariant, and what the capture holds at each of  *)
(* its steps.                                                              *)
NvfbcFlags ==
    /\ tracking \in {"screen", "output"}
    /\ present \in BOOLEAN /\ library \in BOOLEAN
    /\ fbc_handle_created \in BOOLEAN /\ capture_session_created \in BOOLEAN
    /\ nvfbc_needs_recreate \in BOOLEAN /\ retry \in BOOLEAN
    /\ grabbed \in BOOLEAN /\ stale \in BOOLEAN

ModesAreKnown ==
    /\ switches \in Nat /\ mode = switches + 1
    /\ session_mode \in 0 .. mode /\ xlib_mode \in 1 .. mode
    /\ faults \in 0 .. MaxFaults

HandlesAreKnown ==
    /\ fbc_handle_created => handles = 1
    /\ ~fbc_handle_created => handles = 0 /\ ~capture_session_created
    /\ capture_session_created => sessions # {}
    /\ ~capture_session_created => sessions = {}

HeldAtStep ==
    /\ step \in {"load", "handle", "status", "session", "setup", "running",
                "grab", "stop"} \cup Ended
    /\ step \in Ended => ~fbc_handle_created /\ ~library
    /\ step \notin {"load"} \cup Ended => library
    /\ step = "load" => ~library /\ ~nvfbc_needs_recreate
    /\ step \in {"load", "handle"} => ~fbc_handle_created
    /\ step \in {"status", "session"} =>
          fbc_handle_created /\ ~capture_session_created
    /\ step \in {"setup", "grab"} => capture_session_created
    /\ step = "running" /\ ~nvfbc_needs_recreate => capture_session_created

NvfbcIInv == NvfbcFlags /\ ModesAreKnown /\ HandlesAreKnown /\ HeldAtStep

-----------------------------------------------------------------------------
LEMMA NvfbcTypes == NvfbcIInv => NvfbcTypeOK
<1>. SUFFICES ASSUME NvfbcIInv PROVE NvfbcTypeOK
  OBVIOUS
<1>1. /\ tracking \in {"screen", "output"}
      /\ {present, library, fbc_handle_created, capture_session_created,
          nvfbc_needs_recreate, retry, grabbed, stale} \subseteq BOOLEAN
  BY DEF NvfbcIInv, NvfbcFlags
<1>2. /\ mode = switches + 1 /\ session_mode \in 0 .. mode
      /\ xlib_mode \in 1 .. mode /\ faults \in 0 .. MaxFaults
  BY DEF NvfbcIInv, ModesAreKnown
<1>3. /\ handles = IF fbc_handle_created THEN 1 ELSE 0
      /\ capture_session_created => fbc_handle_created /\ library
      /\ step \in Ended => handles = 0 /\ ~library
      /\ step \in {"load", "handle", "status", "session", "setup", "running",
                  "grab", "stop"} \cup Ended
  BY DEF NvfbcIInv, HandlesAreKnown, HeldAtStep
<1>4. capture_session_created = (sessions # {})
  BY Zenon DEF NvfbcIInv, HandlesAreKnown, NvfbcFlags
<1>. QED
  BY <1>1, <1>2, <1>3, <1>4, Zenon DEF NvfbcTypeOK

LEMMA NvfbcInitInvariant == NvfbcInit => NvfbcIInv
<1>. SUFFICES ASSUME NvfbcInit PROVE NvfbcIInv
  OBVIOUS
<1>1. NvfbcFlags
  BY DEF NvfbcInit, NvfbcFlags
<1>2. ModesAreKnown
  BY NvfbcAssumption DEF NvfbcInit, ModesAreKnown
<1>3. HandlesAreKnown
  BY DEF NvfbcInit, HandlesAreKnown
<1>4. HeldAtStep
  BY DEF NvfbcInit, HeldAtStep, Ended
<1>. QED
  BY <1>1, <1>2, <1>3, <1>4 DEF NvfbcIInv

(* Destroying both leaves neither, and the driver holds nothing.           *)
LEMMA BothDestroyed ==
    ASSUME NvfbcIInv, DestroyBoth
    PROVE  /\ fbc_handle_created' = FALSE /\ capture_session_created' = FALSE
           /\ handles' = 0 /\ sessions' = {}
<1>1. /\ fbc_handle_created => handles' = handles - 1 /\ sessions' = {}
      /\ ~fbc_handle_created => handles' = handles /\ sessions' = sessions
      /\ fbc_handle_created' = FALSE
  BY Zenon DEF DestroyBoth
<1>2. capture_session_created' = FALSE
  BY Zenon DEF DestroyBoth, NvfbcIInv, HandlesAreKnown
<1>. QED
  BY <1>1, <1>2 DEF NvfbcIInv, HandlesAreKnown

(* The display changes its mode, or the capture learns of it.              *)
LEMMA DisplayStep ==
    ASSUME NvfbcIInv, BeginSwitch \/ EndSwitch \/ ScreenChangeEvent
    PROVE  NvfbcIInv'
<1>. USE DEF Ended, display, known, driver, capture
<1>1. CASE BeginSwitch
  <2>1. stale' \in BOOLEAN
    BY <1>1, Zenon DEF BeginSwitch
  <2>2. /\ switches' = switches + 1 /\ present' = FALSE /\ mode' = mode + 1
        /\ UNCHANGED <<tracking, driver, step, library, capture, xlib_mode,
                       nvfbc_needs_recreate, retry, grabbed>>
    BY <1>1, Zenon DEF BeginSwitch
  <2>3. NvfbcFlags'
    BY <1>1, <2>1, <2>2 DEF NvfbcIInv, NvfbcFlags, capture
  <2>4. ModesAreKnown'
    BY <1>1, <2>1, <2>2, NvfbcAssumption
       DEF NvfbcIInv, ModesAreKnown, Fault, capture
  <2>5. HandlesAreKnown'
    BY <1>1, <2>1, <2>2
       DEF NvfbcIInv, NvfbcFlags, HandlesAreKnown, HeldAtStep, capture
  <2>6. HeldAtStep'
    BY <1>1, <2>1, <2>2
       DEF NvfbcIInv, NvfbcFlags, HeldAtStep, HandlesAreKnown, capture
  <2>. QED
    BY <2>3, <2>4, <2>5, <2>6 DEF NvfbcIInv
<1>2. CASE EndSwitch
  <2>1. NvfbcFlags'
    BY <1>2 DEF NvfbcIInv, NvfbcFlags, EndSwitch
  <2>2. ModesAreKnown'
    BY <1>2, NvfbcAssumption DEF NvfbcIInv, ModesAreKnown, Fault, EndSwitch
  <2>3. HandlesAreKnown'
    BY <1>2 DEF NvfbcIInv, NvfbcFlags, HandlesAreKnown, HeldAtStep, EndSwitch
  <2>4. HeldAtStep'
    BY <1>2 DEF NvfbcIInv, NvfbcFlags, HeldAtStep, HandlesAreKnown, EndSwitch
  <2>. QED
    BY <2>1, <2>2, <2>3, <2>4 DEF NvfbcIInv
<1>3. CASE ScreenChangeEvent
  <2>1. NvfbcFlags'
    BY <1>3 DEF NvfbcIInv, NvfbcFlags, ScreenChangeEvent
  <2>2. ModesAreKnown'
    BY <1>3, NvfbcAssumption
       DEF NvfbcIInv, ModesAreKnown, Fault, ScreenChangeEvent
  <2>3. HandlesAreKnown'
    BY <1>3
       DEF NvfbcIInv, NvfbcFlags, HandlesAreKnown, HeldAtStep,
           ScreenChangeEvent
  <2>4. HeldAtStep'
    BY <1>3
       DEF NvfbcIInv, NvfbcFlags, HeldAtStep, HandlesAreKnown,
           ScreenChangeEvent
  <2>. QED
    BY <2>1, <2>2, <2>3, <2>4 DEF NvfbcIInv
<1>. QED
  BY <1>1, <1>2, <1>3

(* Library, handle and session are made one after the other.               *)
LEMMA SetUpStep ==
    ASSUME NvfbcIInv,
           \/ LoadLibrary \/ CreateHandle \/ HandleStatus
           \/ CreateSession \/ SetUp
    PROVE  NvfbcIInv'
<1>. USE DEF Ended, display, known, driver, capture
<1>1. CASE LoadLibrary
  <2>1. NvfbcFlags'
    BY <1>1 DEF NvfbcIInv, NvfbcFlags, LoadLibrary
  <2>2. ModesAreKnown'
    BY <1>1, NvfbcAssumption DEF NvfbcIInv, ModesAreKnown, Fault, LoadLibrary
  <2>3. HandlesAreKnown'
    BY <1>1 DEF NvfbcIInv, NvfbcFlags, HandlesAreKnown, HeldAtStep, LoadLibrary
  <2>4. HeldAtStep'
    BY <1>1 DEF NvfbcIInv, NvfbcFlags, HeldAtStep, HandlesAreKnown, LoadLibrary
  <2>. QED
    BY <2>1, <2>2, <2>3, <2>4 DEF NvfbcIInv
<1>2. CASE CreateHandle
  <2>1. NvfbcFlags'
    BY <1>2 DEF NvfbcIInv, NvfbcFlags, CreateHandle, GivenUp
  <2>2. ModesAreKnown'
    BY <1>2, NvfbcAssumption
       DEF NvfbcIInv, ModesAreKnown, Fault, CreateHandle, GivenUp
  <2>3. HandlesAreKnown'
    BY <1>2
       DEF NvfbcIInv, NvfbcFlags, HandlesAreKnown, HeldAtStep, CreateHandle,
           GivenUp
  <2>4. HeldAtStep'
    BY <1>2
       DEF NvfbcIInv, NvfbcFlags, HeldAtStep, HandlesAreKnown, CreateHandle,
           GivenUp
  <2>. QED
    BY <2>1, <2>2, <2>3, <2>4 DEF NvfbcIInv
<1>3. CASE HandleStatus
  <2>1. UNCHANGED <<display, library, nvfbc_needs_recreate, retry, grabbed,
                    xlib_mode>>
    BY <1>3, Zenon DEF HandleStatus
  <2>2. CASE /\ session_mode' = IF tracking = "screen" THEN xlib_mode ELSE mode
             /\ stale' = (session_mode' # mode)
             /\ step' = "session" /\ faults' = faults
             /\ UNCHANGED <<handles, sessions, fbc_handle_created,
                            capture_session_created>>
    <3>1. stale' \in BOOLEAN
      BY <2>2, Zenon
    <3>2. session_mode' = (IF tracking = "screen" THEN xlib_mode ELSE mode)
            /\ step' = "session" /\ faults' = faults
            /\ UNCHANGED <<handles, sessions, fbc_handle_created,
                           capture_session_created>>
      BY <2>2, Zenon
    <3>3. step = "status"
      BY <1>3 DEF HandleStatus
    <3>4. NvfbcFlags'
      BY <2>1, <3>1, <3>2, <3>3 DEF NvfbcIInv, NvfbcFlags, capture
    <3>5. ModesAreKnown'
      BY <2>1, <3>1, <3>2, <3>3, NvfbcAssumption
         DEF NvfbcIInv, ModesAreKnown, Fault, capture
    <3>6. HandlesAreKnown'
      BY <2>1, <3>1, <3>2, <3>3
         DEF NvfbcIInv, NvfbcFlags, HandlesAreKnown, HeldAtStep, capture
    <3>7. HeldAtStep'
      BY <2>1, <3>1, <3>2, <3>3
         DEF NvfbcIInv, NvfbcFlags, HeldAtStep, HandlesAreKnown, capture
    <3>. QED
      BY <3>4, <3>5, <3>6, <3>7 DEF NvfbcIInv
  <2>3. CASE /\ faults' = faults \/ Fault
             /\ DestroyBoth
             /\ step' = GivenUp
             /\ UNCHANGED <<session_mode, stale>>
    <3>1. step = "status"
      BY <1>3 DEF HandleStatus
    <3>2. NvfbcFlags'
      BY <2>1, <2>3, BothDestroyed, <3>1 DEF NvfbcIInv, NvfbcFlags, GivenUp
    <3>3. ModesAreKnown'
      BY <2>1, <2>3, BothDestroyed, <3>1, NvfbcAssumption
         DEF NvfbcIInv, ModesAreKnown, Fault, GivenUp
    <3>4. HandlesAreKnown'
      BY <2>1, <2>3, BothDestroyed, <3>1
         DEF NvfbcIInv, NvfbcFlags, HandlesAreKnown, HeldAtStep, GivenUp
    <3>5. HeldAtStep'
      BY <2>1, <2>3, BothDestroyed, <3>1
         DEF NvfbcIInv, NvfbcFlags, HeldAtStep, HandlesAreKnown, GivenUp
    <3>. QED
      BY <3>2, <3>3, <3>4, <3>5 DEF NvfbcIInv
  <2>. QED
    BY <1>3, <2>2, <2>3, Zenon DEF HandleStatus
<1>4. CASE CreateSession
  <2>1. NvfbcFlags'
    BY <1>4 DEF NvfbcIInv, NvfbcFlags, CreateSession, GivenUp
  <2>2. ModesAreKnown'
    BY <1>4, NvfbcAssumption
       DEF NvfbcIInv, ModesAreKnown, Fault, CreateSession, GivenUp
  <2>3. HandlesAreKnown'
    BY <1>4
       DEF NvfbcIInv, NvfbcFlags, HandlesAreKnown, HeldAtStep, CreateSession,
           GivenUp
  <2>4. HeldAtStep'
    BY <1>4
       DEF NvfbcIInv, NvfbcFlags, HeldAtStep, HandlesAreKnown, CreateSession,
           GivenUp
  <2>. QED
    BY <2>1, <2>2, <2>3, <2>4 DEF NvfbcIInv
<1>5. CASE SetUp
  <2>1. NvfbcFlags'
    BY <1>5 DEF NvfbcIInv, NvfbcFlags, SetUp, DestroySession, GivenUp
  <2>2. ModesAreKnown'
    BY <1>5, NvfbcAssumption
       DEF NvfbcIInv, ModesAreKnown, Fault, SetUp, DestroySession, GivenUp
  <2>3. HandlesAreKnown'
    BY <1>5
       DEF NvfbcIInv, NvfbcFlags, HandlesAreKnown, HeldAtStep, SetUp,
           DestroySession, GivenUp
  <2>4. HeldAtStep'
    BY <1>5
       DEF NvfbcIInv, NvfbcFlags, HeldAtStep, HandlesAreKnown, SetUp,
           DestroySession, GivenUp
  <2>. QED
    BY <2>1, <2>2, <2>3, <2>4 DEF NvfbcIInv
<1>. QED
  BY <1>1, <1>2, <1>3, <1>4, <1>5

(* The recording captures frames, makes session and handle anew, and ends. *)
LEMMA RunningStep ==
    ASSUME NvfbcIInv,
           \/ StartFails \/ CaptureDead \/ CaptureAlive \/ Grab \/ RetryTime
           \/ DestroyCapture
    PROVE  NvfbcIInv'
<1>. USE DEF Ended, display, known, driver, capture
<1>1. CASE StartFails
  <2>1. NvfbcFlags'
    BY <1>1, BothDestroyed DEF NvfbcIInv, NvfbcFlags, StartFails, Stopped
  <2>2. ModesAreKnown'
    BY <1>1, BothDestroyed, NvfbcAssumption
       DEF NvfbcIInv, ModesAreKnown, Fault, StartFails, Stopped
  <2>3. HandlesAreKnown'
    BY <1>1, BothDestroyed
       DEF NvfbcIInv, NvfbcFlags, HandlesAreKnown, HeldAtStep, StartFails,
           Stopped
  <2>4. HeldAtStep'
    BY <1>1, BothDestroyed
       DEF NvfbcIInv, NvfbcFlags, HeldAtStep, HandlesAreKnown, StartFails,
           Stopped
  <2>. QED
    BY <2>1, <2>2, <2>3, <2>4 DEF NvfbcIInv
<1>2. CASE CaptureDead
  <2>1. NvfbcFlags'
    BY <1>2, BothDestroyed DEF NvfbcIInv, NvfbcFlags, CaptureDead
  <2>2. ModesAreKnown'
    BY <1>2, BothDestroyed, NvfbcAssumption
       DEF NvfbcIInv, ModesAreKnown, Fault, CaptureDead
  <2>3. HandlesAreKnown'
    BY <1>2, BothDestroyed
       DEF NvfbcIInv, NvfbcFlags, HandlesAreKnown, HeldAtStep, CaptureDead
  <2>4. HeldAtStep'
    BY <1>2, BothDestroyed
       DEF NvfbcIInv, NvfbcFlags, HeldAtStep, HandlesAreKnown, CaptureDead
  <2>. QED
    BY <2>1, <2>2, <2>3, <2>4 DEF NvfbcIInv
<1>3. CASE CaptureAlive
  <2>1. NvfbcFlags'
    BY <1>3 DEF NvfbcIInv, NvfbcFlags, CaptureAlive
  <2>2. ModesAreKnown'
    BY <1>3, NvfbcAssumption DEF NvfbcIInv, ModesAreKnown, Fault, CaptureAlive
  <2>3. HandlesAreKnown'
    BY <1>3
       DEF NvfbcIInv, NvfbcFlags, HandlesAreKnown, HeldAtStep, CaptureAlive
  <2>4. HeldAtStep'
    BY <1>3
       DEF NvfbcIInv, NvfbcFlags, HeldAtStep, HandlesAreKnown, CaptureAlive
  <2>. QED
    BY <2>1, <2>2, <2>3, <2>4 DEF NvfbcIInv
<1>4. CASE Grab
  <2>1. NvfbcFlags'
    BY <1>4 DEF NvfbcIInv, NvfbcFlags, Grab, Dead
  <2>2. ModesAreKnown'
    BY <1>4, NvfbcAssumption DEF NvfbcIInv, ModesAreKnown, Fault, Grab, Dead
  <2>3. HandlesAreKnown'
    BY <1>4 DEF NvfbcIInv, NvfbcFlags, HandlesAreKnown, HeldAtStep, Grab, Dead
  <2>4. HeldAtStep'
    BY <1>4 DEF NvfbcIInv, NvfbcFlags, HeldAtStep, HandlesAreKnown, Grab, Dead
  <2>. QED
    BY <2>1, <2>2, <2>3, <2>4 DEF NvfbcIInv
<1>5. CASE RetryTime
  <2>1. NvfbcFlags'
    BY <1>5 DEF NvfbcIInv, NvfbcFlags, RetryTime
  <2>2. ModesAreKnown'
    BY <1>5, NvfbcAssumption DEF NvfbcIInv, ModesAreKnown, Fault, RetryTime
  <2>3. HandlesAreKnown'
    BY <1>5 DEF NvfbcIInv, NvfbcFlags, HandlesAreKnown, HeldAtStep, RetryTime
  <2>4. HeldAtStep'
    BY <1>5 DEF NvfbcIInv, NvfbcFlags, HeldAtStep, HandlesAreKnown, RetryTime
  <2>. QED
    BY <2>1, <2>2, <2>3, <2>4 DEF NvfbcIInv
<1>6. CASE DestroyCapture
  <2>1. NvfbcFlags'
    BY <1>6, BothDestroyed DEF NvfbcIInv, NvfbcFlags, DestroyCapture, Stopped
  <2>2. ModesAreKnown'
    BY <1>6, BothDestroyed, NvfbcAssumption
       DEF NvfbcIInv, ModesAreKnown, Fault, DestroyCapture, Stopped
  <2>3. HandlesAreKnown'
    BY <1>6, BothDestroyed
       DEF NvfbcIInv, NvfbcFlags, HandlesAreKnown, HeldAtStep,
           DestroyCapture, Stopped
  <2>4. HeldAtStep'
    BY <1>6, BothDestroyed
       DEF NvfbcIInv, NvfbcFlags, HeldAtStep, HandlesAreKnown,
           DestroyCapture, Stopped
  <2>. QED
    BY <2>1, <2>2, <2>3, <2>4 DEF NvfbcIInv
<1>. QED
  BY <1>1, <1>2, <1>3, <1>4, <1>5, <1>6

LEMMA NvfbcStepInvariant == NvfbcIInv /\ [NvfbcNext]_nvfbcVars => NvfbcIInv'
<1>. SUFFICES ASSUME NvfbcIInv, [NvfbcNext]_nvfbcVars PROVE NvfbcIInv'
  OBVIOUS
<1>1. CASE NvfbcNext
  BY <1>1, DisplayStep, SetUpStep, RunningStep DEF NvfbcNext, NvfbcStep
<1>2. CASE UNCHANGED nvfbcVars
  BY <1>2 DEF nvfbcVars, display, driver, capture, known, NvfbcIInv,
              NvfbcFlags, ModesAreKnown, HandlesAreKnown, HeldAtStep, Ended
<1>. QED
  BY <1>1, <1>2

(* However often and wherever the driver fails, the flags are what the     *)
(* driver holds for the capture, and nothing is left at the end            *)
(* (gsr_capture_nvfbc_destroy_session, _destroy_handle, _stop).            *)
THEOREM NvfbcTypeCorrect == NvfbcSpec => []NvfbcTypeOK
BY NvfbcTypes, NvfbcInitInvariant, NvfbcStepInvariant, PTL DEF NvfbcSpec

-----------------------------------------------------------------------------
(* The portal session.                                                     *)

In(line) == {line[i] : i \in DOMAIN line}

(* What is sent over the connection.                                       *)
MethodCalls == [method : Methods, handle : Nat, token : Nat, late : BOOLEAN]
Responses == [method : Methods, handle : Nat, status : 0 .. 2,
              streams : 0 .. 2, token : Nat]

SessionTypes ==
    /\ calls \in Seq(MethodCalls) /\ dialogs \in Seq(MethodCalls)
    /\ signals \in Seq(Responses)
    /\ portal \in {"up", "dead"} /\ portal_version \in Nat
    /\ tokens \in Nat /\ handle_counter \in Nat /\ late_replies \in Nat
    /\ refused \in BOOLEAN /\ disturbed \in BOOLEAN

(* What setup_dbus waits for is of a method it calls.                      *)
WaitsForMethods ==
    /\ waiting = "known" => method = "SelectSources"
    /\ waiting \in Awaiting => method \in Methods
    /\ waiting = "response" => method \in Methods \ {"OpenPipeWireRemote"}

(* A call that is not late is the last one, and its reply is waited for.   *)
LastCallIsAwaited ==
    \A i \in DOMAIN calls :
        calls[i].late \/ /\ i = Len(calls)
                         /\ \/ method \in SessionOver
                            \/ waiting \in Awaiting /\ reply = "none"

(* While no reply was late, one call or its dialog or its Response is      *)
(* under way at a time, and it is that of the method setup_dbus is at.     *)
OneAtATime ==
    late_replies = 0 =>
        /\ \A c \in In(calls) : ~c.late
        /\ method \notin SessionOver =>
            /\ \A c \in In(calls) :
                  /\ c.method = method
                  /\ c.handle = handle_counter \/ method = "OpenPipeWireRemote"
                  /\ c.token = IF waiting = "reply" /\ method = "SelectSources"
                               THEN TokenToUse ELSE NoToken
            /\ \A d \in In(dialogs) \cup In(signals) :
                  d.method = method /\ d.handle = handle_counter
            /\ dialogs # <<>> \/ signals # <<>> =>
                  /\ calls = <<>> /\ method # "OpenPipeWireRemote"
                  /\ \/ waiting = "response"
                     \/ waiting \in Awaiting /\ reply = "ok"
            /\ Len(dialogs) + Len(signals) <= 1
            /\ waiting = "response" => calls = <<>> /\ reply = "none"

HasStart(line) == \E i \in DOMAIN line : line[i].method = "Start"
AfterStart == {"save", "write", "OpenPipeWireRemote", "opened"}
Broken == {"failed", "killed"}

(* In a run Start is called once, and comes last in every line: when its   *)
(* Response is there nothing else is.  So what the Response said of        *)
(* streams and token is what the portal did last.                          *)
StartComesLast ==
    method \notin Broken =>
        /\ HasStart(calls) \/ HasStart(dialogs) \/ HasStart(signals) =>
              method = "Start" /\ waiting # "none"
        /\ \A i \in DOMAIN calls : calls[i].method = "Start" =>
              i = Len(calls) /\ ~HasStart(dialogs) /\ ~HasStart(signals)
        /\ \A i \in DOMAIN dialogs : dialogs[i].method = "Start" =>
              i = Len(dialogs) /\ calls = <<>> /\ ~HasStart(signals)
        /\ \A i \in DOMAIN signals : signals[i].method = "Start" =>
              /\ i = Len(signals) /\ calls = <<>> /\ dialogs = <<>>
              /\ offered = signals[i].streams /\ given = signals[i].token
        /\ method \in AfterStart =>
              /\ pipewire_node \in 1 .. offered
              /\ dialogs = <<>> /\ signals = <<>>
              /\ given # NoToken => restore_token = given
              /\ \A c \in In(calls) : c.method = "OpenPipeWireRemote"
        /\ method \in {"save", "write"} => calls = <<>>
        /\ given # NoToken =>
              given \in granted /\ (HasStart(signals) \/ method \in AfterStart)

(* Responses to other methods bring neither streams nor tokens; what was   *)
(* refused is known.                                                       *)
ResponsesAreTrue ==
    \A s \in In(signals) :
        /\ s.method # "Start" => s.streams = 0 /\ s.token = NoToken
        /\ s.status # 0 \/ (s.method = "Start" /\ s.streams = 0) => refused

(* An error nobody is to blame for is of a token that is tried again       *)
(* without.                                                                *)
ErrorIsRetried ==
    /\ late_replies = 0 /\ portal = "up" /\ ~refused
    /\ reply = "error" /\ method \notin SessionOver
    => waiting = "reply" /\ Retries

(* As long as no token was lost, those in use are honoured.                *)
TokensAreHonoured ==
    ~disturbed =>
        /\ {token_file, restore_token} \subseteq granted \cup {NoToken}
        /\ \A c \in In(calls) \cup In(dialogs) :
              c.token \in granted \cup {NoToken}

SessionIInv ==
    /\ SessionTypeOK
    /\ SessionTypes
    /\ WaitsForMethods
    /\ LastCallIsAwaited
    /\ OneAtATime
    /\ StartComesLast
    /\ ResponsesAreTrue
    /\ ErrorIsRetried
    /\ TokensAreHonoured
    /\ FailsOnlyWhenRefused

-----------------------------------------------------------------------------
LEMMA QueueGrows ==
    ASSUME NEW S, NEW line \in Seq(S), NEW x \in S
    PROVE  /\ Append(line, x) \in Seq(S)
           /\ Len(Append(line, x)) = Len(line) + 1
           /\ \A i \in DOMAIN line : Append(line, x)[i] = line[i]
           /\ Append(line, x)[Len(line) + 1] = x
           /\ In(Append(line, x)) = In(line) \cup {x}
<1>1. /\ Append(line, x) \in Seq(S)
      /\ Len(Append(line, x)) = Len(line) + 1
      /\ \A i \in DOMAIN line : Append(line, x)[i] = line[i]
      /\ Append(line, x)[Len(line) + 1] = x
      /\ DOMAIN Append(line, x) = DOMAIN line \cup {Len(line) + 1}
  OBVIOUS
<1>. QED
  BY <1>1, Zenon DEF In

LEMMA QueueShrinks ==
    ASSUME NEW S, NEW line \in Seq(S), line # <<>>
    PROVE  /\ Tail(line) \in Seq(S) /\ Head(line) \in S
           /\ Len(line) \in Nat \ {0} /\ Len(Tail(line)) = Len(line) - 1
           /\ \A i \in DOMAIN Tail(line) :
                 i + 1 \in DOMAIN line /\ Tail(line)[i] = line[i + 1]
           /\ In(Tail(line)) \subseteq In(line)
           /\ 1 \in DOMAIN line /\ Head(line) = line[1]
           /\ Head(line) \in In(line)
BY DEF In

LEMMA EmptyQueue == In(<<>>) = {} /\ <<>> \in Seq({}) /\ ~HasStart(<<>>)
BY DEF In, HasStart

(* The first call is the only one that may not be late; what follows from  *)
(* its being answered.                                                     *)
LEMMA CallTaken ==
    ASSUME SessionIInv, calls # <<>>, calls' = Tail(calls)
    PROVE  /\ calls' \in Seq(MethodCalls) /\ Head(calls) \in MethodCalls
           /\ portal = "up"
           /\ In(calls') \subseteq In(calls) /\ Head(calls) \in In(calls)
           /\ \A i \in DOMAIN calls' : calls'[i].late \/ i = Len(calls')
           /\ HasStart(calls') => HasStart(calls)
           /\ ~Head(calls).late =>
                 /\ calls' = <<>>
                 /\ \/ method \in SessionOver
                    \/ waiting \in Awaiting /\ reply = "none"
           /\ calls' # <<>> => \A i \in DOMAIN calls' : i + 1 \in DOMAIN calls
                                  /\ calls'[i] = calls[i + 1]
           /\ Len(calls) = Len(calls') + 1
           /\ Head(calls) = calls[1] /\ 1 \in DOMAIN calls
<1>1. calls \in Seq(MethodCalls)
  BY DEF SessionIInv, SessionTypes
<1>2. /\ calls' \in Seq(MethodCalls) /\ Head(calls) \in MethodCalls
      /\ In(calls') \subseteq In(calls) /\ Head(calls) \in In(calls)
      /\ Head(calls) = calls[1] /\ 1 \in DOMAIN calls
      /\ Len(calls) \in Nat \ {0} /\ Len(calls') = Len(calls) - 1
      /\ \A i \in DOMAIN calls' : i + 1 \in DOMAIN calls
                                    /\ calls'[i] = calls[i + 1]
  BY <1>1, QueueShrinks
<1>3. portal = "up"
  BY <1>1 DEF SessionIInv, SessionTypes, SessionTypeOK
<1>4. \A i \in DOMAIN calls' : calls'[i].late \/ i = Len(calls')
  BY <1>2 DEF SessionIInv, LastCallIsAwaited
<1>5. HasStart(calls') => HasStart(calls)
  BY <1>2 DEF HasStart
<1>6. ~Head(calls).late =>
         /\ calls' = <<>>
         /\ \/ method \in SessionOver
            \/ waiting \in Awaiting /\ reply = "none"
  BY <1>2 DEF SessionIInv, LastCallIsAwaited
<1>. QED
  BY <1>2, <1>3, <1>4, <1>5, <1>6

LEMMA AcceptsStep == ASSUME SessionIInv, PortalAccepts PROVE SessionIInv'
<1>. DEFINE call == Head(calls)
            opens == call.method = "OpenPipeWireRemote"
<1>1. /\ calls # <<>> /\ calls' = Tail(calls)
      /\ reply' = IF call.late THEN reply ELSE "ok"
      /\ dialogs' = IF opens THEN dialogs ELSE Append(dialogs, call)
      /\ UNCHANGED <<portal_version, portal, granted, tokens, late_replies,
                     signals, caller, recordings, history>>
  BY DEF PortalAccepts, Replied
<1>2. /\ calls' \in Seq(MethodCalls) /\ call \in MethodCalls
      /\ portal = "up"
      /\ In(calls') \subseteq In(calls) /\ call \in In(calls)
      /\ \A i \in DOMAIN calls' : calls'[i].late \/ i = Len(calls')
      /\ HasStart(calls') => HasStart(calls)
      /\ ~call.late =>
            /\ calls' = <<>>
            /\ \/ method \in SessionOver
               \/ waiting \in Awaiting /\ reply = "none"
      /\ calls' # <<>> => \A i \in DOMAIN calls' : i + 1 \in DOMAIN calls
                             /\ calls'[i] = calls[i + 1]
      /\ Len(calls) = Len(calls') + 1
      /\ call = calls[1] /\ 1 \in DOMAIN calls
  BY <1>1, CallTaken, Zenon
<1>3. /\ dialogs' \in Seq(MethodCalls)
      /\ In(dialogs') \subseteq In(dialogs) \cup {call}
      /\ opens => dialogs' = dialogs
      /\ ~opens => /\ Len(dialogs') = Len(dialogs) + 1
                   /\ \A i \in DOMAIN dialogs : dialogs'[i] = dialogs[i]
                   /\ dialogs'[Len(dialogs')] = call
  BY <1>1, <1>2, QueueGrows DEF SessionIInv, SessionTypes
<1>. USE <1>1, <1>2, <1>3
         DEF SessionIInv, SessionTypes, caller, recordings, history
<1>. HIDE DEF call, opens
<1>4. SessionTypeOK'
  <2>1. reply' # "none" => waiting' \in Awaiting \/ method' \in SessionOver
    BY DEF SessionTypeOK
  <2>2. portal' = "up" /\ reply' \in {"none", "ok", "error"}
    BY DEF SessionTypeOK
  <2>. QED
    BY <2>1, <2>2 DEF SessionTypeOK, Tokens, NoToken
<1>5. SessionTypes'
  BY DEF SessionTypes
<1>6. WaitsForMethods' /\ LastCallIsAwaited'
  BY DEF WaitsForMethods, LastCallIsAwaited
<1>7. OneAtATime'
  <2>. SUFFICES ASSUME late_replies = 0 PROVE OneAtATime'
    BY DEF OneAtATime
  <2>1. ~call.late /\ calls' = <<>> /\ In(calls') = {}
    BY EmptyQueue DEF OneAtATime
  <2>2. CASE method \in SessionOver
    BY <2>1, <2>2 DEF OneAtATime
  <2>3. CASE method \notin SessionOver
    <3>1. /\ call.method = method
          /\ call.handle = handle_counter \/ opens
          /\ waiting \in Awaiting /\ reply' = "ok"
          /\ dialogs = <<>> /\ signals = <<>>
      BY <2>1, <2>3 DEF OneAtATime, opens
    <3>2. In(signals) = {} /\ In(dialogs) = {} /\ Len(signals) = 0
            /\ Len(dialogs) = 0
      BY <3>1, EmptyQueue
    <3>3. Len(dialogs') <= 1 /\ Len(signals') = 0 /\ Len(dialogs') \in Nat
      BY <3>2
    <3>4. \A d \in In(dialogs') :
             d.method = method /\ d.handle = handle_counter
      BY <3>1, <3>2
    <3>5. dialogs' # <<>> => ~opens
      BY <3>1
    <3>. QED
      BY <2>1, <3>1, <3>2, <3>3, <3>4, <3>5 DEF OneAtATime, opens, Awaiting
  <2>. QED
    BY <2>2, <2>3
<1>8. StartComesLast'
  <2>. SUFFICES ASSUME method \notin Broken PROVE StartComesLast'
    BY DEF StartComesLast
  <2>1. ASSUME call.method = "Start"
        PROVE  /\ calls' = <<>> /\ HasStart(calls) /\ ~HasStart(dialogs)
               /\ ~HasStart(signals) /\ ~opens
               /\ method = "Start" /\ waiting # "none"
    <3>1. HasStart(calls)
      BY <2>1 DEF HasStart
    <3>2. /\ 1 = Len(calls) /\ ~HasStart(dialogs) /\ ~HasStart(signals)
          /\ method = "Start" /\ waiting # "none"
      BY <2>1, <3>1 DEF StartComesLast
    <3>3. calls' = <<>>
      BY <3>2
    <3>. QED
      BY <2>1, <3>1, <3>2, <3>3 DEF opens
  <2>2. HasStart(dialogs') => HasStart(dialogs) \/ call.method = "Start"
    BY DEF HasStart
  <2>3. HasStart(calls') => ~HasStart(dialogs')
    BY <2>1, <2>2, EmptyQueue DEF StartComesLast, HasStart
  <2>4. HasStart(calls') \/ HasStart(dialogs') \/ HasStart(signals) =>
              method = "Start" /\ waiting # "none"
    BY <2>2 DEF StartComesLast, HasStart
  <2>5. HasStart(dialogs') =>
            calls' = <<>> /\ ~HasStart(signals)
    BY <2>1, <2>2 DEF StartComesLast, HasStart
  <2>6. \A i \in DOMAIN dialogs' : dialogs'[i].method = "Start" =>
              i = Len(dialogs')
    BY <2>1 DEF StartComesLast, HasStart
  <2>7. ~HasStart(signals)
    BY DEF StartComesLast, HasStart
  <2>8. \A i \in DOMAIN calls' : calls'[i].method = "Start" =>
              i = Len(calls')
    BY DEF StartComesLast
  <2>9. method \in AfterStart => opens
    BY DEF StartComesLast, opens
  <2>. QED
    BY <2>3, <2>4, <2>5, <2>6, <2>7, <2>8, <2>9, EmptyQueue
       DEF StartComesLast, HasStart
<1>9. ResponsesAreTrue' /\ ErrorIsRetried' /\ FailsOnlyWhenRefused'
  BY DEF ResponsesAreTrue, ErrorIsRetried, Retries, TokenToUse,
         FailsOnlyWhenRefused
<1>10. TokensAreHonoured'
  BY DEF TokensAreHonoured
<1>. QED
  BY <1>4, <1>5, <1>6, <1>7, <1>8, <1>9, <1>10

LEMMA RefusesStep == ASSUME SessionIInv, PortalRefuses PROVE SessionIInv'
<1>. DEFINE call == Head(calls)
<1>1. /\ calls # <<>> /\ calls' = Tail(calls)
      /\ reply' = IF call.late THEN reply ELSE "error"
      /\ refused' = (refused \/ call.token \in granted \cup {NoToken})
      /\ UNCHANGED <<portal_version, portal, dialogs, granted, tokens,
                     late_replies, signals, caller, recordings, offered, given,
                     disturbed>>
  BY DEF PortalRefuses, Replied
<1>2. /\ calls' \in Seq(MethodCalls) /\ call \in MethodCalls
      /\ portal = "up"
      /\ In(calls') \subseteq In(calls) /\ call \in In(calls)
      /\ \A i \in DOMAIN calls' : calls'[i].late \/ i = Len(calls')
      /\ HasStart(calls') => HasStart(calls)
      /\ ~call.late =>
            /\ calls' = <<>>
            /\ \/ method \in SessionOver
               \/ waiting \in Awaiting /\ reply = "none"
      /\ calls' # <<>> => \A i \in DOMAIN calls' : i + 1 \in DOMAIN calls
                             /\ calls'[i] = calls[i + 1]
      /\ Len(calls) = Len(calls') + 1
      /\ call = calls[1] /\ 1 \in DOMAIN calls
  BY <1>1, CallTaken, Zenon
<1>. HIDE DEF call
<1>3. refused' \in BOOLEAN /\ (refused => refused')
  <2>1. refused \in BOOLEAN
    BY DEF SessionIInv, SessionTypes
  <2>. QED
    BY <1>1, <2>1, Zenon
<1>. USE <1>1, <1>2, <1>3
         DEF SessionIInv, SessionTypes, caller, recordings
<1>4. SessionTypeOK'
  <2>1. reply' # "none" => waiting' \in Awaiting \/ method' \in SessionOver
    BY DEF SessionTypeOK
  <2>2. portal' = "up" /\ reply' \in {"none", "ok", "error"}
    BY DEF SessionTypeOK
  <2>. QED
    BY <2>1, <2>2 DEF SessionTypeOK, Tokens, NoToken
<1>5. SessionTypes'
  BY DEF SessionTypes
<1>6. WaitsForMethods' /\ LastCallIsAwaited'
  BY DEF WaitsForMethods, LastCallIsAwaited
<1>7. OneAtATime'
  <2>. SUFFICES ASSUME late_replies = 0 PROVE OneAtATime'
    BY DEF OneAtATime
  <2>1. ~call.late /\ calls' = <<>> /\ In(calls') = {}
    BY EmptyQueue DEF OneAtATime
  <2>2. CASE method \in SessionOver
    BY <2>1, <2>2 DEF OneAtATime
  <2>3. CASE method \notin SessionOver
    BY <2>1, <2>3 DEF OneAtATime, Awaiting
  <2>. QED
    BY <2>2, <2>3
<1>8. StartComesLast'
  <2>. SUFFICES ASSUME method \notin Broken PROVE StartComesLast'
    BY DEF StartComesLast
  <2>1. HasStart(calls') => ~HasStart(dialogs) /\ ~HasStart(signals)
    BY DEF StartComesLast, HasStart
  <2>. QED
    BY <2>1 DEF StartComesLast, HasStart
<1>9. ResponsesAreTrue' /\ FailsOnlyWhenRefused'
  BY DEF ResponsesAreTrue, FailsOnlyWhenRefused
<1>10. ErrorIsRetried'
  <2>. SUFFICES ASSUME late_replies = 0, ~refused', reply' = "error",
                       method \notin SessionOver
                PROVE  waiting = "reply" /\ Retries
    BY DEF ErrorIsRetried, Retries, TokenToUse
  <2>1. ~call.late /\ call.token # NoToken
    BY DEF OneAtATime
  <2>. QED
    BY <2>1 DEF OneAtATime, Retries
<1>11. TokensAreHonoured'
  BY DEF TokensAreHonoured
<1>. QED
  BY <1>4, <1>5, <1>6, <1>7, <1>8, <1>9, <1>10, <1>11

LEMMA RespondsStep == ASSUME SessionIInv, PortalResponds PROVE SessionIInv'
<1>. DEFINE call == Head(dialogs)
<1>1. PICK status \in 0 .. 2, n \in 0 .. 2, token \in {NoToken, tokens + 1} :
         /\ call.method # "Start" => n = 0 /\ token = NoToken
         /\ status # 0 => n = 0 /\ token = NoToken
         /\ signals' = Append(signals,
                [method |-> call.method, handle |-> call.handle,
                 status |-> status, streams |-> n, token |-> token])
         /\ tokens' = IF token # NoToken THEN token ELSE tokens
         /\ granted' = (granted \ {call.token})
                         \cup (IF token # NoToken THEN {token} ELSE {})
         /\ refused' = (refused \/ status # 0
                          \/ (call.method = "Start" /\ n = 0))
         /\ offered' = IF call.method = "Start" THEN n ELSE offered
         /\ given' = IF token # NoToken THEN token ELSE given
         /\ disturbed' =
               (disturbed \/ token # NoToken \/ call.token # NoToken)
  BY DEF PortalResponds
<1>. DEFINE response ==
         [method |-> call.method, handle |-> call.handle,
          status |-> status, streams |-> n, token |-> token]
<1>2. /\ dialogs # <<>> /\ dialogs' = Tail(dialogs)
      /\ UNCHANGED <<portal_version, portal, calls, late_replies, reply,
                     caller, recordings>>
  BY DEF PortalResponds
<1>3. /\ dialogs' \in Seq(MethodCalls) /\ call \in MethodCalls
      /\ In(dialogs') \subseteq In(dialogs) /\ call \in In(dialogs)
      /\ Len(dialogs) \in Nat \ {0} /\ Len(dialogs') = Len(dialogs) - 1
      /\ call = dialogs[1] /\ 1 \in DOMAIN dialogs
      /\ \A i \in DOMAIN dialogs' : /\ i + 1 \in DOMAIN dialogs
                                    /\ dialogs'[i] = dialogs[i + 1]
  BY <1>2, QueueShrinks DEF SessionIInv, SessionTypes
<1>4. portal = "up"
  BY <1>2, <1>3 DEF SessionIInv, SessionTypeOK, SessionTypes
<1>5. response \in Responses
  <2>1. tokens \in Nat /\ token \in Nat /\ call.method \in Methods
          /\ call.handle \in Nat
    BY <1>3 DEF SessionIInv, SessionTypes, NoToken, MethodCalls
  <2>. QED
    BY <2>1 DEF Responses
<1>6. /\ response.method = call.method /\ response.handle = call.handle
      /\ response.status = status /\ response.streams = n
      /\ response.token = token
  OBVIOUS
<1>. HIDE DEF response
<1>7. /\ signals' \in Seq(Responses)
      /\ In(signals') = In(signals) \cup {response}
      /\ Len(signals') = Len(signals) + 1
      /\ \A i \in DOMAIN signals : signals'[i] = signals[i]
      /\ signals'[Len(signals')] = response
  BY <1>1, <1>5, QueueGrows DEF SessionIInv, SessionTypes, response
<1>8. /\ (refused => refused') /\ (disturbed => disturbed')
      /\ refused' \in BOOLEAN /\ disturbed' \in BOOLEAN
  <2>1. refused \in BOOLEAN /\ disturbed \in BOOLEAN
    BY DEF SessionIInv, SessionTypes
  <2>. QED
    BY <1>1, <2>1, Zenon
<1>. HIDE DEF call
<1>9. /\ granted' \subseteq 1 .. tokens' /\ tokens' \in Nat
      /\ tokens' >= tokens /\ given' \in 0 .. tokens'
  <2>1. /\ tokens \in Nat /\ granted \subseteq 1 .. tokens
        /\ given \in 0 .. tokens
    BY DEF SessionIInv, SessionTypes, SessionTypeOK, Tokens
  <2>2. CASE token = NoToken
    <3>1. tokens' = tokens /\ granted' \subseteq granted /\ given' = given
      BY <1>1, <2>2
    <3>. QED
      BY <2>1, <3>1
  <2>3. CASE token = tokens + 1 /\ token # NoToken
    <3>1. /\ tokens' = tokens + 1 /\ given' = tokens + 1
          /\ granted' \subseteq granted \cup {tokens + 1}
      BY <1>1, <2>3
    <3>. QED
      BY <2>1, <3>1
  <2>. QED
    BY <2>2, <2>3
<1>. USE <1>1, <1>2, <1>3, <1>4, <1>6, <1>7, <1>8
         DEF SessionIInv, SessionTypes, caller, recordings
<1>10. SessionTypeOK'
  BY <1>9 DEF SessionTypeOK, Tokens, NoToken
<1>11. SessionTypes'
  BY <1>9
<1>12. WaitsForMethods' /\ LastCallIsAwaited'
  BY DEF WaitsForMethods, LastCallIsAwaited
<1>13. OneAtATime'
  <2>. SUFFICES ASSUME late_replies = 0 PROVE OneAtATime'
    BY DEF OneAtATime
  <2>1. CASE method \in SessionOver
    BY <2>1 DEF OneAtATime
  <2>2. CASE method \notin SessionOver
    <3>1. /\ call.method = method /\ call.handle = handle_counter
          /\ calls = <<>> /\ Len(dialogs') = 0 /\ signals = <<>>
      BY <2>2 DEF OneAtATime
    <3>2. In(signals) = {} /\ Len(signals) = 0
      BY <3>1, EmptyQueue, Zenon
    <3>3. dialogs' = <<>>
      BY <3>1
    <3>4. In(dialogs') = {} /\ In(signals') = {response}
      BY <3>2, <3>3, EmptyQueue, Zenon
    <3>. QED
      BY <2>2, <3>1, <3>2, <3>3, <3>4, EmptyQueue DEF OneAtATime
  <2>. QED
    BY <2>1, <2>2
<1>14. StartComesLast'
  <2>. SUFFICES ASSUME method \notin Broken PROVE StartComesLast'
    BY DEF StartComesLast
  <2>1. ASSUME call.method = "Start"
        PROVE  /\ dialogs' = <<>> /\ calls = <<>> /\ ~HasStart(signals)
               /\ method = "Start" /\ waiting # "none"
    <3>1. HasStart(dialogs)
      BY <2>1 DEF HasStart
    <3>2. /\ 1 = Len(dialogs) /\ ~HasStart(signals) /\ calls = <<>>
          /\ method = "Start" /\ waiting # "none"
      BY <2>1, <3>1 DEF StartComesLast
    <3>. QED
      BY <3>2
  <2>2. HasStart(signals') => HasStart(signals) \/ call.method = "Start"
    BY DEF HasStart
  <2>3. HasStart(dialogs') => HasStart(dialogs) /\ call.method # "Start"
    BY <2>1 DEF HasStart
  <2>4. ~HasStart(signals)
    BY DEF StartComesLast, HasStart
  <2>5. \A i \in DOMAIN signals' : signals'[i].method = "Start" =>
              i = Len(signals') /\ call.method = "Start"
    BY <2>4 DEF HasStart
  <2>6. method \notin AfterStart
    BY DEF StartComesLast
  <2>7. given' # NoToken => call.method = "Start"
    BY <2>4, <2>6 DEF StartComesLast
  <2>8. call.method = "Start" => HasStart(signals')
    <3>1. Len(signals') \in DOMAIN signals'
      OBVIOUS
    <3>. QED
      BY <3>1 DEF HasStart
  <2>9. \A i \in DOMAIN dialogs' : dialogs'[i].method = "Start" =>
              i = Len(dialogs') /\ calls = <<>> /\ ~HasStart(signals')
    BY <2>2, <2>3, <2>4 DEF StartComesLast, HasStart
  <2>10. \A i \in DOMAIN calls : calls[i].method = "Start" =>
            i = Len(calls) /\ ~HasStart(dialogs') /\ ~HasStart(signals')
    <3>1. ASSUME NEW i \in DOMAIN calls, calls[i].method = "Start"
          PROVE  i = Len(calls) /\ ~HasStart(dialogs)
      BY <3>1 DEF StartComesLast
    <3>2. call.method = "Start" => HasStart(dialogs)
      BY DEF HasStart
    <3>. QED
      BY <3>1, <3>2, <2>2, <2>3, <2>4
  <2>11. HasStart(calls) => method = "Start" /\ waiting # "none"
    BY DEF StartComesLast
  <2>12. HasStart(signals') =>
            /\ method = "Start" /\ waiting # "none"
            /\ calls = <<>> /\ dialogs' = <<>>
            /\ offered' = response.streams /\ given' = response.token
    BY <2>1, <2>2, <2>4, <2>7 DEF StartComesLast
  <2>13. given' # NoToken => given' \in granted' /\ HasStart(signals')
    BY <2>4, <2>6, <2>7, <2>8 DEF StartComesLast
  <2>14. HasStart(dialogs') => method = "Start" /\ waiting # "none"
    BY <2>3 DEF StartComesLast
  <2>. QED
    <3>1. HasStart(signals') => method = "Start" /\ waiting # "none"
      BY <2>12
    <3>2. \A i \in DOMAIN signals' : signals'[i].method = "Start" =>
             /\ i = Len(signals') /\ calls = <<>> /\ dialogs' = <<>>
             /\ offered' = signals'[i].streams /\ given' = signals'[i].token
      BY <2>5, <2>12 DEF HasStart
    <3>3. method' = method /\ waiting' = waiting /\ calls' = calls
      OBVIOUS
    <3>4. HasStart(calls') <=> HasStart(calls)
      BY <3>3 DEF HasStart
    <3>5. method \notin {"save", "write"}
      BY <2>6 DEF AfterStart
    <3>. HIDE <1>1, <1>2, <1>3, <1>4, <1>6, <1>7, <1>8
    <3>. QED
      BY <2>6, <2>9, <2>10, <2>11, <2>13, <2>14, <3>1, <3>2, <3>3, <3>4, <3>5
         DEF StartComesLast
<1>15. ResponsesAreTrue'
  BY DEF ResponsesAreTrue
<1>16. ErrorIsRetried' /\ FailsOnlyWhenRefused'
  BY DEF ErrorIsRetried, Retries, TokenToUse, FailsOnlyWhenRefused
<1>17. TokensAreHonoured'
  BY DEF TokensAreHonoured
<1>. QED
  BY <1>10, <1>11, <1>12, <1>13, <1>14, <1>15, <1>16, <1>17

LEMMA DiesStep == ASSUME SessionIInv, PortalDies PROVE SessionIInv'
<1>1. /\ method \notin SessionOver
      /\ portal' = "dead" /\ calls' = <<>> /\ dialogs' = <<>>
      /\ reply' = IF waiting \in Awaiting /\ reply = "none" THEN "error"
                  ELSE reply
      /\ UNCHANGED <<portal_version, granted, tokens, late_replies, signals,
                     caller, recordings, history>>
  BY DEF PortalDies
<1>2. In(calls') = {} /\ In(dialogs') = {} /\ ~HasStart(calls')
        /\ ~HasStart(dialogs') /\ Len(dialogs') = 0
  BY <1>1, EmptyQueue
<1>. USE <1>1, <1>2
         DEF SessionIInv, SessionTypes, caller, recordings, history
<1>3. SessionTypeOK' /\ SessionTypes'
  BY DEF SessionTypeOK, Tokens, NoToken
<1>4. WaitsForMethods' /\ LastCallIsAwaited'
  BY DEF WaitsForMethods, LastCallIsAwaited
<1>5. OneAtATime'
  <2>1. Len(dialogs) \in Nat /\ Len(signals) \in Nat
    OBVIOUS
  <2>. QED
    BY <2>1 DEF OneAtATime, Awaiting
<1>6. StartComesLast'
  BY DEF StartComesLast, HasStart
<1>7. ResponsesAreTrue' /\ ErrorIsRetried' /\ FailsOnlyWhenRefused'
  BY DEF ResponsesAreTrue, ErrorIsRetried, FailsOnlyWhenRefused
<1>8. TokensAreHonoured'
  BY DEF TokensAreHonoured
<1>. QED
  BY <1>3, <1>4, <1>5, <1>6, <1>7, <1>8

LEMMA LateStep == ASSUME SessionIInv, ReplyTimesOut PROVE SessionIInv'
<1>1. /\ waiting \in Awaiting /\ reply = "none" /\ calls # <<>>
      /\ late_replies' = late_replies + 1
      /\ calls' = [i \in DOMAIN calls |-> [calls[i] EXCEPT !.late = TRUE]]
      /\ reply' = "error"
      /\ UNCHANGED <<portal_version, portal, dialogs, granted, tokens, signals,
                     caller, recordings, history>>
  BY DEF ReplyTimesOut
<1>2. /\ DOMAIN calls' = DOMAIN calls /\ calls' \in Seq(MethodCalls)
      /\ Len(calls') = Len(calls)
      /\ \A i \in DOMAIN calls :
            /\ calls'[i].late /\ calls'[i].method = calls[i].method
            /\ calls'[i].token = calls[i].token
  <2>1. calls \in Seq(MethodCalls)
    BY DEF SessionIInv, SessionTypes
  <2>2. \A i \in DOMAIN calls : calls[i] \in MethodCalls
    BY <2>1
  <2>3. \A i \in DOMAIN calls : [calls[i] EXCEPT !.late = TRUE] \in MethodCalls
    BY <2>2, Zenon DEF MethodCalls
  <2>4. \A i \in DOMAIN calls :
           LET timed == [calls[i] EXCEPT !.late = TRUE]
           IN  /\ timed.late /\ timed.method = calls[i].method
               /\ timed.token = calls[i].token
    BY <2>2 DEF MethodCalls
  <2>5. /\ DOMAIN calls' = DOMAIN calls
        /\ \A i \in DOMAIN calls :
              calls'[i] = [calls[i] EXCEPT !.late = TRUE]
    BY <1>1
  <2>6. calls' \in Seq(MethodCalls) /\ Len(calls') = Len(calls)
    BY <1>1, <2>1, <2>3
  <2>. QED
    BY <2>4, <2>5, <2>6
<1>. USE <1>1, <1>2
         DEF SessionIInv, SessionTypes, caller, recordings, history
<1>3. SessionTypeOK'
  BY DEF SessionTypeOK, Tokens, NoToken
<1>4. SessionTypes'
  OBVIOUS
<1>5. WaitsForMethods' /\ LastCallIsAwaited' /\ OneAtATime'
  BY DEF WaitsForMethods, LastCallIsAwaited, OneAtATime
<1>6. StartComesLast'
  <2>1. HasStart(calls') <=> HasStart(calls)
    BY DEF HasStart
  <2>2. method \notin Broken /\ method \in AfterStart =>
            \A c \in In(calls') : c.method = "OpenPipeWireRemote"
    BY DEF StartComesLast, In
  <2>. QED
    BY <2>1, <2>2 DEF StartComesLast, HasStart
<1>7. ResponsesAreTrue' /\ ErrorIsRetried' /\ FailsOnlyWhenRefused'
  BY DEF ResponsesAreTrue, ErrorIsRetried, FailsOnlyWhenRefused
<1>8. TokensAreHonoured'
  BY DEF TokensAreHonoured, In
<1>. QED
  BY <1>3, <1>4, <1>5, <1>6, <1>7, <1>8

(* A call that is sent is put behind those not answered, or answered with  *)
(* an error at once.                                                       *)
LEMMA CallSent ==
    ASSUME SessionIInv, NEW m \in Methods, NEW handle \in Nat,
           NEW token \in Nat,
           Sent(m, handle, token)
    PROVE  /\ calls' \in Seq(MethodCalls) /\ Len(calls') >= Len(calls)
           /\ reply' \in {"none", "error"}
           /\ reply' = "error" => portal = "dead" /\ calls' = calls
           /\ reply' = "none" => portal = "up" /\ Len(calls') = Len(calls) + 1
           /\ \A i \in DOMAIN calls : calls'[i] = calls[i]
           /\ \A i \in DOMAIN calls' :
                 \/ i \in DOMAIN calls
                 \/ /\ i = Len(calls') /\ i = Len(calls) + 1
                    /\ reply' = "none" /\ ~calls'[i].late
                    /\ calls'[i].method = m /\ calls'[i].handle = handle
                    /\ calls'[i].token = token
           /\ \A c \in In(calls') :
                 \/ c \in In(calls)
                 \/ ~c.late /\ c.method = m /\ c.handle = handle
                      /\ c.token = token
<1>. DEFINE call == [method |-> m, handle |-> handle, token |-> token,
                     late |-> FALSE]
<1>1. call \in MethodCalls /\ ~call.late /\ call.method = m
        /\ call.handle = handle /\ call.token = token
  BY DEF MethodCalls
<1>2. calls \in Seq(MethodCalls) /\ Len(calls) \in Nat
        /\ portal \in {"up", "dead"}
  BY DEF SessionIInv, SessionTypes
<1>3. CASE portal = "up"
  <2>1. calls' = Append(calls, call) /\ reply' = "none"
    BY <1>3 DEF Sent
  <2>. HIDE DEF call
  <2>. QED
    BY <1>1, <1>2, <1>3, <2>1, QueueGrows
<1>4. CASE portal = "dead"
  <2>1. calls' = calls /\ reply' = "error"
    BY <1>4 DEF Sent
  <2>. QED
    BY <1>2, <1>4, <2>1
<1>. QED
  BY <1>2, <1>3, <1>4

LEMMA LearnStep == ASSUME SessionIInv, LearnVersion PROVE SessionIInv'
<1>1. /\ method = "SelectSources" /\ waiting = "none" /\ waiting' = "known"
      /\ seen_version' \in {0, portal_version}
      /\ UNCHANGED <<portalVars, wire, method, handle_counter, restore_token,
                     pipewire_node, recordings, history>>
  BY DEF LearnVersion
<1>. USE <1>1 DEF SessionIInv, SessionTypes, portalVars, wire, recordings,
                  history, SessionOver, Awaiting
<1>2. SessionTypeOK' /\ SessionTypes'
  BY DEF SessionTypeOK, Tokens, NoToken
<1>3. WaitsForMethods' /\ LastCallIsAwaited' /\ OneAtATime'
  BY DEF WaitsForMethods, LastCallIsAwaited, OneAtATime, SessionTypeOK
<1>4. StartComesLast'
  BY DEF StartComesLast, HasStart
<1>5. /\ ResponsesAreTrue' /\ ErrorIsRetried' /\ TokensAreHonoured'
      /\ FailsOnlyWhenRefused'
  BY DEF ResponsesAreTrue, ErrorIsRetried, TokensAreHonoured,
         FailsOnlyWhenRefused, SessionTypeOK
<1>. QED
  BY <1>2, <1>3, <1>4, <1>5

LEMMA CallStep == ASSUME SessionIInv, CallMethod PROVE SessionIInv'
<1>. DEFINE handle == handle_counter + 1
            token == IF method = "SelectSources" THEN TokenToUse ELSE NoToken
<1>1. /\ method \in Methods /\ waiting \in {"none", "known"}
      /\ waiting = "known" => method = "SelectSources"
      /\ Sent(method, handle, token)
      /\ handle_counter' = IF method = "OpenPipeWireRemote" THEN handle_counter
                           ELSE handle
      /\ waiting' = "reply"
      /\ UNCHANGED <<portal_version, portal, dialogs, granted, tokens,
                     late_replies, signals, method, seen_version,
                     restore_token, pipewire_node, recordings, history>>
  BY DEF CallMethod
<1>2. handle \in Nat /\ token \in Nat /\ token \in {NoToken, restore_token}
        /\ method \notin SessionOver
  BY <1>1 DEF SessionIInv, SessionTypes, SessionTypeOK, Tokens, NoToken,
              TokenToUse, Methods, SessionOver
<1>3. TokenToUse' = TokenToUse
  BY <1>1 DEF TokenToUse
<1>. HIDE DEF handle, token
<1>4. /\ calls' \in Seq(MethodCalls) /\ Len(calls') >= Len(calls)
      /\ reply' \in {"none", "error"}
      /\ reply' = "error" => portal = "dead" /\ calls' = calls
      /\ reply' = "none" => portal = "up" /\ Len(calls') = Len(calls) + 1
      /\ \A i \in DOMAIN calls : calls'[i] = calls[i]
      /\ \A i \in DOMAIN calls' :
            \/ i \in DOMAIN calls
            \/ /\ i = Len(calls') /\ i = Len(calls) + 1
               /\ reply' = "none" /\ ~calls'[i].late
               /\ calls'[i].method = method /\ calls'[i].handle = handle
               /\ calls'[i].token = token
      /\ \A c \in In(calls') :
            \/ c \in In(calls)
            \/ ~c.late /\ c.method = method /\ c.handle = handle
                 /\ c.token = token
  BY <1>1, <1>2, CallSent
<1>. USE <1>1, <1>2, <1>3, <1>4
         DEF SessionIInv, SessionTypes, recordings, history
<1>5. SessionTypeOK'
  BY DEF SessionTypeOK, Tokens, NoToken, Awaiting
<1>6. SessionTypes'
  BY DEF handle
<1>7. WaitsForMethods' /\ LastCallIsAwaited'
  BY DEF WaitsForMethods, LastCallIsAwaited, Awaiting
<1>8. OneAtATime'
  <2>. SUFFICES ASSUME late_replies = 0 PROVE OneAtATime'
    BY DEF OneAtATime
  <2>1. calls = <<>>
    BY DEF OneAtATime, LastCallIsAwaited, Awaiting, SessionTypeOK, In
  <2>2. dialogs = <<>> /\ signals = <<>>
    BY DEF OneAtATime, Awaiting
  <2>3. In(calls) = {} /\ In(dialogs) = {} /\ In(signals) = {}
    BY <2>1, <2>2, EmptyQueue, Zenon
  <2>. QED
    BY <2>2, <2>3 DEF OneAtATime, token
<1>9. StartComesLast'
  <2>. SUFFICES ASSUME method \notin Broken PROVE StartComesLast'
    BY DEF StartComesLast
  <2>1. ~HasStart(calls) /\ ~HasStart(dialogs) /\ ~HasStart(signals)
    BY DEF StartComesLast
  <2>2. HasStart(calls') => method = "Start"
    BY <2>1 DEF HasStart
  <2>3. \A i \in DOMAIN calls' : calls'[i].method = "Start" =>
            i = Len(calls') /\ ~HasStart(dialogs') /\ ~HasStart(signals')
    BY <2>1 DEF HasStart
  <2>4. \A i \in DOMAIN dialogs : dialogs[i].method # "Start"
    BY <2>1 DEF HasStart
  <2>5. \A i \in DOMAIN signals : signals[i].method # "Start"
    BY <2>1 DEF HasStart
  <2>6. method \in AfterStart => \A c \in In(calls') :
                                    c.method = "OpenPipeWireRemote"
    BY DEF StartComesLast, AfterStart, Methods
  <2>7. method \notin {"save", "write"}
    BY DEF Methods
  <2>8. ~HasStart(dialogs') /\ ~HasStart(signals')
    BY <2>1 DEF HasStart
  <2>. QED
    BY <2>1, <2>2, <2>3, <2>4, <2>5, <2>6, <2>7, <2>8 DEF StartComesLast
<1>10. ResponsesAreTrue' /\ ErrorIsRetried' /\ FailsOnlyWhenRefused'
  BY DEF ResponsesAreTrue, ErrorIsRetried, FailsOnlyWhenRefused
<1>11. TokensAreHonoured'
  BY DEF TokensAreHonoured
<1>. QED
  BY <1>5, <1>6, <1>7, <1>8, <1>9, <1>10, <1>11

LEMMA ReplyStep == ASSUME SessionIInv, GotReply PROVE SessionIInv'
<1>1. /\ waiting \in Awaiting /\ reply = "ok" /\ reply' = "none"
      /\ \/ /\ method = "OpenPipeWireRemote"
            /\ method' = "opened" /\ waiting' = "none"
         \/ /\ method # "OpenPipeWireRemote"
            /\ method' = method /\ waiting' = "response"
      /\ UNCHANGED <<portalVars, signals, handle_counter, seen_version,
                     restore_token, pipewire_node, recordings, history>>
  BY DEF GotReply, Immediate, NextMethod, Goes
<1>. USE <1>1 DEF SessionIInv, SessionTypes, portalVars, recordings, history
<1>2. SessionTypeOK' /\ SessionTypes'
  BY DEF SessionTypeOK, Tokens, NoToken, SessionOver, Awaiting
<1>3. WaitsForMethods' /\ LastCallIsAwaited'
  BY DEF WaitsForMethods, LastCallIsAwaited, SessionOver, Awaiting
<1>4. OneAtATime'
  <2>. SUFFICES ASSUME late_replies = 0, method' \notin SessionOver
                PROVE  OneAtATime'
    BY DEF OneAtATime, SessionOver
  <2>1. method' = method /\ waiting' = "response" /\ method \notin SessionOver
          /\ method # "OpenPipeWireRemote"
    BY DEF SessionOver
  <2>2. calls = <<>>
    BY <2>1 DEF OneAtATime, LastCallIsAwaited, In
  <2>3. In(calls) = {} /\ In(calls') = {}
    BY <2>2, EmptyQueue, Zenon DEF portalVars
  <2>4. In(dialogs') = In(dialogs) /\ In(signals') = In(signals)
          /\ dialogs' = dialogs
    BY DEF In
  <2>. QED
    BY <2>1, <2>2, <2>3, <2>4 DEF OneAtATime
<1>5. StartComesLast'
  <2>1. method' \in Broken <=> method \in Broken
    BY DEF Broken
  <2>2. method' \in AfterStart <=> method \in AfterStart
    BY DEF AfterStart
  <2>3. ASSUME method \notin Broken, method = "OpenPipeWireRemote"
        PROVE  ~HasStart(calls) /\ ~HasStart(dialogs) /\ ~HasStart(signals)
    BY <2>3 DEF StartComesLast
  <2>4. /\ HasStart(calls') <=> HasStart(calls)
        /\ HasStart(dialogs') <=> HasStart(dialogs)
        /\ HasStart(signals') <=> HasStart(signals)
        /\ In(calls') = In(calls)
    BY DEF HasStart, In
  <2>. QED
    BY <2>1, <2>2, <2>3, <2>4 DEF StartComesLast
<1>6. ResponsesAreTrue' /\ ErrorIsRetried' /\ FailsOnlyWhenRefused'
  BY DEF ResponsesAreTrue, ErrorIsRetried, FailsOnlyWhenRefused
<1>7. TokensAreHonoured'
  BY DEF TokensAreHonoured
<1>. QED
  BY <1>2, <1>3, <1>4, <1>5, <1>6, <1>7

LEMMA ErrorStep == ASSUME SessionIInv, GotError PROVE SessionIInv'
<1>1. /\ waiting \in Awaiting /\ reply = "error" /\ method \in Methods
      /\ UNCHANGED <<portal_version, portal, dialogs, granted, tokens,
                     late_replies, signals, handle_counter, seen_version,
                     restore_token, pipewire_node, recordings, history>>
  BY DEF GotError, SessionIInv, WaitsForMethods
<1>2. method \notin SessionOver
  BY <1>1 DEF Methods, SessionOver
<1>3. late_replies = 0 => calls = <<>> /\ dialogs = <<>> /\ signals = <<>>
  <2>1. late_replies = 0 => calls = <<>>
    BY <1>1, <1>2
       DEF SessionIInv, SessionTypes, OneAtATime, LastCallIsAwaited, In
  <2>2. late_replies = 0 => dialogs = <<>> /\ signals = <<>>
    BY <1>1, <1>2 DEF SessionIInv, OneAtATime, Awaiting
  <2>. QED
    BY <2>1, <2>2
<1>4. CASE waiting = "reply" /\ Retries
  <2>1. /\ Sent(method, handle_counter, NoToken)
        /\ waiting' = "again" /\ method' = method
    BY <1>4 DEF GotError
  <2>2. method = "SelectSources" /\ handle_counter \in Nat /\ NoToken \in Nat
          /\ method \in Methods
    BY <1>1, <1>4 DEF SessionIInv, SessionTypes, Retries, NoToken
  <2>3. /\ calls' \in Seq(MethodCalls) /\ Len(calls') >= Len(calls)
        /\ reply' \in {"none", "error"}
        /\ reply' = "error" => portal = "dead" /\ calls' = calls
        /\ reply' = "none" => portal = "up" /\ Len(calls') = Len(calls) + 1
        /\ \A i \in DOMAIN calls : calls'[i] = calls[i]
        /\ \A i \in DOMAIN calls' :
              \/ i \in DOMAIN calls
              \/ /\ i = Len(calls') /\ i = Len(calls) + 1
                 /\ reply' = "none" /\ ~calls'[i].late
                 /\ calls'[i].method = method
                 /\ calls'[i].handle = handle_counter
                 /\ calls'[i].token = NoToken
        /\ \A c \in In(calls') :
              \/ c \in In(calls)
              \/ ~c.late /\ c.method = method /\ c.handle = handle_counter
                   /\ c.token = NoToken
    BY <2>1, <2>2, CallSent
  <2>. USE <1>1, <1>2, <2>1, <2>2, <2>3
           DEF SessionIInv, SessionTypes, recordings, history
  <2>4. SessionTypeOK' /\ SessionTypes'
    BY DEF SessionTypeOK, Tokens, NoToken, Awaiting
  <2>5. WaitsForMethods' /\ LastCallIsAwaited'
    BY DEF WaitsForMethods, LastCallIsAwaited, Awaiting
  <2>6. OneAtATime'
    <3>. SUFFICES ASSUME late_replies = 0 PROVE OneAtATime'
      BY DEF OneAtATime
    <3>1. In(calls) = {} /\ In(dialogs) = {} /\ In(signals) = {}
      BY <1>3, EmptyQueue, Zenon
    <3>. QED
      BY <1>3, <3>1 DEF OneAtATime
  <2>7. StartComesLast'
    <3>1. method \notin Broken /\ method \notin AfterStart
      BY DEF Broken, AfterStart
    <3>2. ~HasStart(calls) /\ ~HasStart(dialogs) /\ ~HasStart(signals)
      BY <3>1 DEF StartComesLast
    <3>3. ~HasStart(calls') /\ ~HasStart(dialogs') /\ ~HasStart(signals')
      BY <3>2 DEF HasStart
    <3>. QED
      BY <3>1, <3>3 DEF StartComesLast, HasStart
  <2>8. ResponsesAreTrue' /\ ErrorIsRetried' /\ FailsOnlyWhenRefused'
    BY DEF ResponsesAreTrue, ErrorIsRetried, FailsOnlyWhenRefused
  <2>9. TokensAreHonoured'
    BY DEF TokensAreHonoured
  <2>. QED
    BY <2>4, <2>5, <2>6, <2>7, <2>8, <2>9
<1>5. CASE ~(waiting = "reply" /\ Retries)
  <2>1. method' = "failed" /\ waiting' = "none" /\ reply' = "none"
          /\ calls' = calls
    BY <1>5 DEF GotError, Goes
  <2>2. In(calls') = In(calls) /\ In(dialogs') = In(dialogs)
          /\ In(signals') = In(signals)
    BY <1>1, <2>1 DEF In
  <2>. USE <1>1, <1>2, <2>1, <2>2
           DEF SessionIInv, SessionTypes, recordings, history
  <2>3. SessionTypeOK' /\ SessionTypes'
    BY DEF SessionTypeOK, Tokens, NoToken, SessionOver
  <2>4. WaitsForMethods' /\ LastCallIsAwaited' /\ OneAtATime'
    BY DEF WaitsForMethods, LastCallIsAwaited, OneAtATime, SessionOver,
           Awaiting
  <2>5. StartComesLast' /\ ResponsesAreTrue' /\ ErrorIsRetried'
    BY DEF StartComesLast, Broken, ResponsesAreTrue, ErrorIsRetried,
           SessionOver
  <2>6. FailsOnlyWhenRefused'
    BY <1>5 DEF FailsOnlyWhenRefused, ErrorIsRetried
  <2>7. TokensAreHonoured'
    BY DEF TokensAreHonoured
  <2>. QED
    BY <2>3, <2>4, <2>5, <2>6, <2>7
<1>. QED
  BY <1>4, <1>5

LEMMA ResponseStep == ASSUME SessionIInv, GotResponse PROVE SessionIInv'
<1>. DEFINE response == Head(signals)
            badly == \/ response.status # 0
                     \/ method = "CreateSession" /\ response.method # method
<1>1. /\ waiting = "response" /\ signals # <<>> /\ signals' = Tail(signals)
      /\ waiting' = "none"
      /\ UNCHANGED <<portalVars, reply, handle_counter, seen_version,
                     recordings, history>>
      /\ method \in {"CreateSession", "SelectSources", "Start"}
  BY DEF GotResponse, Goes, SessionIInv, WaitsForMethods, Methods
<1>2. /\ signals' \in Seq(Responses) /\ response \in Responses
      /\ Len(signals) \in Nat \ {0} /\ Len(signals') = Len(signals) - 1
      /\ \A i \in DOMAIN signals' : /\ i + 1 \in DOMAIN signals
                                    /\ signals'[i] = signals[i + 1]
      /\ In(signals') \subseteq In(signals) /\ response \in In(signals)
      /\ 1 \in DOMAIN signals /\ response = signals[1]
  BY <1>1, QueueShrinks DEF SessionIInv, SessionTypes
<1>3. \/ /\ badly
         /\ method' = "failed"
         /\ restore_token' = restore_token /\ pipewire_node' = pipewire_node
      \/ /\ ~badly /\ method # "Start" /\ method' = NextMethod[method]
         /\ restore_token' = restore_token /\ pipewire_node' = pipewire_node
      \/ /\ ~badly /\ method = "Start"
         /\ restore_token' = TokenAfter(response.token)
         /\ pipewire_node' = NodeOf(response.streams)
         /\ method' = IF response.streams = 0 THEN "failed" ELSE "save"
  BY DEF GotResponse, Goes, Missing, NodeOf, NextMethod
<1>. HIDE DEF response
<1>4. late_replies = 0 =>
         /\ response.method = method
         /\ calls = <<>> /\ dialogs = <<>> /\ signals' = <<>>
  <2>. SUFFICES ASSUME late_replies = 0
                PROVE  /\ response.method = method
                       /\ calls = <<>> /\ dialogs = <<>> /\ signals' = <<>>
    OBVIOUS
  <2>1. /\ response.method = method /\ calls = <<>>
        /\ Len(dialogs) + Len(signals) <= 1
    BY <1>1, <1>2 DEF SessionIInv, OneAtATime, SessionOver
  <2>2. Len(dialogs) = 0 /\ Len(signals') = 0
    BY <1>2, <2>1 DEF SessionIInv, SessionTypes
  <2>. QED
    BY <1>2, <2>1, <2>2 DEF SessionIInv, SessionTypes
<1>5. /\ response.method # "Start" => /\ response.streams = 0
                                      /\ response.token = NoToken
      /\ response.status # 0 => refused
      /\ response.method = "Start" /\ response.streams = 0 => refused
  BY <1>2 DEF SessionIInv, ResponsesAreTrue
<1>6. response.method = "Start" =>
         /\ method = "Start" /\ signals' = <<>>
         /\ calls = <<>> /\ dialogs = <<>>
         /\ offered = response.streams /\ given = response.token
  <2>. SUFFICES ASSUME response.method = "Start"
                PROVE  /\ method = "Start" /\ signals' = <<>>
                       /\ calls = <<>> /\ dialogs = <<>>
                       /\ offered = response.streams /\ given = response.token
    OBVIOUS
  <2>1. HasStart(signals) /\ method \notin Broken
    BY <1>1, <1>2 DEF HasStart, Broken
  <2>2. /\ method = "Start" /\ Len(signals) = 1
        /\ calls = <<>> /\ dialogs = <<>>
        /\ offered = response.streams /\ given = response.token
    BY <1>2, <2>1 DEF SessionIInv, StartComesLast
  <2>. QED
    BY <1>2, <2>2
<1>7. /\ method' \in {"failed", "SelectSources", "Start", "save"}
      /\ method' = "Start" => method = "SelectSources"
      /\ method' = "SelectSources" => method = "CreateSession"
      /\ method' = "save" => /\ method = "Start" /\ response.streams # 0
                             /\ restore_token' = TokenAfter(response.token)
                             /\ pipewire_node' = 1
  BY <1>1, <1>3 DEF NextMethod, NodeOf
<1>8. restore_token' \in {restore_token, given}
        /\ pipewire_node' \in {0, 1, pipewire_node}
        /\ (restore_token' # restore_token => given # NoToken)
  BY <1>3, <1>5, <1>6 DEF TokenAfter, NodeOf
<1>. HIDE DEF badly
<1>. USE <1>1, <1>2 DEF SessionIInv, SessionTypes, portalVars, recordings,
                        history
<1>9. SessionTypeOK'
  BY <1>7, <1>8 DEF SessionTypeOK, Tokens, NoToken, Methods, SessionOver,
                    Awaiting
<1>10. SessionTypes' /\ WaitsForMethods' /\ LastCallIsAwaited'
  BY DEF WaitsForMethods, LastCallIsAwaited, Awaiting, SessionOver
<1>11. OneAtATime'
  <2>. SUFFICES ASSUME late_replies = 0 PROVE OneAtATime'
    BY DEF OneAtATime
  <2>1. In(calls) = {} /\ In(dialogs) = {} /\ In(signals') = {}
    BY <1>4, EmptyQueue, Zenon
  <2>. QED
    BY <1>4, <2>1 DEF OneAtATime
<1>12. StartComesLast'
  <2>. SUFFICES ASSUME method' # "failed" PROVE StartComesLast'
    BY DEF StartComesLast, Broken
  <2>1. HasStart(signals') => HasStart(signals)
    BY DEF HasStart
  <2>2. CASE method' = "save"
    <3>1. response.method = "Start"
      BY <1>5, <1>7, <2>2
    <3>2. /\ pipewire_node' = 1 /\ offered \in 0 .. 2 /\ offered # 0
          /\ calls = <<>> /\ dialogs = <<>> /\ signals' = <<>>
      BY <1>6, <1>7, <2>2, <3>1 DEF SessionTypeOK
    <3>3. given # NoToken => restore_token' = given /\ given \in granted
      BY <1>1, <1>6, <1>7, <2>2, <3>1
         DEF TokenAfter, StartComesLast, Broken
    <3>4. /\ calls' = <<>> /\ dialogs' = <<>> /\ offered' = offered
          /\ pipewire_node' \in 1 .. offered'
          /\ given' # NoToken => restore_token' = given' /\ given' \in granted'
      BY <3>2, <3>3
    <3>5. ~HasStart(calls') /\ ~HasStart(dialogs') /\ ~HasStart(signals')
            /\ In(calls') = {}
      BY <3>2, <3>4, EmptyQueue, Zenon
    <3>. QED
      BY <2>2, <3>2, <3>4, <3>5 DEF StartComesLast, AfterStart, HasStart
  <2>3. CASE method' # "save"
    <3>1. method # "Start" /\ method \notin Broken /\ method \notin AfterStart
            /\ method' \notin AfterStart
      BY <1>3, <1>7, <2>3 DEF Broken, AfterStart
    <3>2. ~HasStart(calls) /\ ~HasStart(dialogs) /\ ~HasStart(signals)
            /\ given = NoToken
      BY <3>1 DEF StartComesLast
    <3>3. ~HasStart(calls') /\ ~HasStart(dialogs') /\ ~HasStart(signals')
      BY <2>1, <3>2 DEF HasStart
    <3>. QED
      BY <3>1, <3>2, <3>3 DEF StartComesLast, HasStart, AfterStart
  <2>. QED
    BY <2>2, <2>3
<1>13. ResponsesAreTrue' /\ ErrorIsRetried'
  BY DEF ResponsesAreTrue, ErrorIsRetried, SessionTypeOK, Awaiting,
         SessionOver
<1>14. FailsOnlyWhenRefused'
  BY <1>3, <1>4, <1>5 DEF FailsOnlyWhenRefused, badly, NextMethod
<1>15. TokensAreHonoured'
  <2>1. given # NoToken => given \in granted
    BY DEF StartComesLast, Broken
  <2>. QED
    BY <1>8, <2>1 DEF TokensAreHonoured
<1>. QED
  BY <1>9, <1>10, <1>11, <1>12, <1>13, <1>14, <1>15

LEMMA TokenFileStep ==
    ASSUME SessionIInv, OpenTokenFile \/ WriteToken PROVE SessionIInv'
<1>1. /\ method \in {"save", "write"} /\ waiting' = "none"
      /\ method' \in {"write", "OpenPipeWireRemote"}
      /\ token_file' \in {token_file, NoToken, restore_token}
      /\ UNCHANGED <<portalVars, wire, handle_counter, seen_version,
                     restore_token, pipewire_node, run, restore, refused,
                     offered, given>>
  BY DEF OpenTokenFile, WriteToken, Goes, history
<1>11. /\ disturbed' \in BOOLEAN
       /\ disturbed /\ ~disturbed' =>
             given # NoToken /\ token_file' = restore_token
  <2>1. disturbed \in BOOLEAN
    BY DEF SessionIInv, SessionTypes
  <2>2. \/ disturbed' = disturbed
        \/ /\ disturbed' = (disturbed /\ given = NoToken)
           /\ token_file' = restore_token
    BY Zenon DEF OpenTokenFile, WriteToken, history
  <2>. QED
    BY <2>1, <2>2, Zenon
<1>2. /\ calls = <<>> /\ dialogs = <<>> /\ signals = <<>>
      /\ calls' = <<>> /\ dialogs' = <<>> /\ signals' = <<>>
      /\ given # NoToken => restore_token = given /\ given \in granted
      /\ pipewire_node' \in 1 .. offered'
  BY <1>1 DEF SessionIInv, StartComesLast, Broken, AfterStart, portalVars, wire
<1>3. /\ In(calls') = {} /\ In(dialogs') = {} /\ In(signals') = {}
      /\ ~HasStart(calls') /\ ~HasStart(dialogs') /\ ~HasStart(signals')
  BY <1>2, EmptyQueue, Zenon
<1>4. waiting \notin Awaiting /\ reply = "none" /\ reply' = "none"
  BY <1>1 DEF SessionIInv, SessionTypeOK, WaitsForMethods, Methods,
              SessionOver, wire
<1>. USE <1>1, <1>2, <1>3, <1>4, <1>11
         DEF SessionIInv, SessionTypes, portalVars, wire
<1>6. SessionTypeOK' /\ SessionTypes'
  BY DEF SessionTypeOK, Tokens, NoToken, Methods
<1>7. WaitsForMethods' /\ LastCallIsAwaited' /\ OneAtATime'
  BY DEF WaitsForMethods, LastCallIsAwaited, OneAtATime, Awaiting
<1>8. StartComesLast'
  BY DEF StartComesLast, AfterStart, Broken
<1>9. ResponsesAreTrue' /\ ErrorIsRetried' /\ FailsOnlyWhenRefused'
  BY DEF ResponsesAreTrue, ErrorIsRetried, FailsOnlyWhenRefused
<1>10. TokensAreHonoured'
  BY DEF TokensAreHonoured
<1>. QED
  BY <1>6, <1>7, <1>8, <1>9, <1>10

LEMMA RunStep == ASSUME SessionIInv, StartRun PROVE SessionIInv'
<1>1. /\ restore_token' \in {token_file, NoToken}
      /\ method' = "CreateSession" /\ waiting' = "none" /\ portal' = "up"
      /\ calls' = <<>> /\ dialogs' = <<>> /\ signals' = <<>>
      /\ reply' = "none"
      /\ handle_counter' = 0 /\ seen_version' = 0 /\ pipewire_node' = 0
      /\ refused' = FALSE /\ offered' = 0 /\ given' = NoToken
      /\ UNCHANGED <<portal_version, granted, tokens, late_replies, token_file,
                     disturbed>>
  BY DEF StartRun, Goes
<1>2. /\ In(calls') = {} /\ In(dialogs') = {} /\ In(signals') = {}
      /\ ~HasStart(calls') /\ ~HasStart(dialogs') /\ ~HasStart(signals')
  BY <1>1, EmptyQueue, Zenon
<1>. USE <1>1, <1>2 DEF SessionIInv, SessionTypes
<1>3. SessionTypeOK' /\ SessionTypes'
  <2>1. calls' \o dialogs' = <<>>
    OBVIOUS
  <2>2. calls' \in Seq(MethodCalls) /\ dialogs' \in Seq(MethodCalls)
          /\ signals' \in Seq(Responses)
    OBVIOUS
  <2>3. refused' \in BOOLEAN /\ disturbed' \in BOOLEAN
    BY Zenon
  <2>. QED
    BY <2>1, <2>2, <2>3 DEF SessionTypeOK, Tokens, NoToken, Methods
<1>4. WaitsForMethods' /\ LastCallIsAwaited' /\ OneAtATime'
  BY DEF WaitsForMethods, LastCallIsAwaited, OneAtATime, Awaiting
<1>5. StartComesLast'
  BY DEF StartComesLast, AfterStart, Broken
<1>6. ResponsesAreTrue' /\ ErrorIsRetried' /\ FailsOnlyWhenRefused'
  BY DEF ResponsesAreTrue, ErrorIsRetried, FailsOnlyWhenRefused
<1>7. TokensAreHonoured'
  BY DEF TokensAreHonoured
<1>. QED
  BY <1>3, <1>4, <1>5, <1>6, <1>7

LEMMA KilledStep == ASSUME SessionIInv, Killed PROVE SessionIInv'
<1>1. /\ method' = "killed" /\ waiting' = "none"
      /\ UNCHANGED <<portalVars, wire, handle_counter, seen_version,
                     restore_token, pipewire_node, recordings, history>>
  BY DEF Killed, Goes
<1>2. In(calls') = In(calls) /\ In(dialogs') = In(dialogs)
        /\ In(signals') = In(signals)
  BY <1>1 DEF portalVars, wire, In
<1>. USE <1>1, <1>2 DEF SessionIInv, SessionTypes, portalVars, wire,
                        recordings, history, SessionOver
<1>3. SessionTypeOK' /\ SessionTypes'
  BY DEF SessionTypeOK, Tokens, NoToken
<1>4. WaitsForMethods' /\ LastCallIsAwaited' /\ OneAtATime'
  BY DEF WaitsForMethods, LastCallIsAwaited, OneAtATime, Awaiting
<1>5. StartComesLast' /\ ErrorIsRetried' /\ FailsOnlyWhenRefused'
  BY DEF StartComesLast, Broken, ErrorIsRetried, FailsOnlyWhenRefused
<1>6. ResponsesAreTrue' /\ TokensAreHonoured'
  BY DEF ResponsesAreTrue, TokensAreHonoured
<1>. QED
  BY <1>3, <1>4, <1>5, <1>6

LEMMA SessionInitInvariant == SessionInit => SessionIInv
<1>. SUFFICES ASSUME SessionInit PROVE SessionIInv
  OBVIOUS
<1>. USE SessionAssumption DEF SessionInit
<1>1. /\ In(calls) = {} /\ In(dialogs) = {} /\ In(signals) = {}
  BY EmptyQueue, Zenon
<1>2. /\ disturbed \in BOOLEAN
      /\ disturbed <=> token_file \notin granted \cup {NoToken}
  <2>1. disturbed = (token_file \notin granted \cup {NoToken})
    OBVIOUS
  <2>. QED
    BY <2>1, Zenon
<1>3. SessionTypeOK
  BY DEF SessionTypeOK, Tokens, NoToken, SessionOver
<1>4. SessionTypes
  <2>1. refused \in BOOLEAN
    OBVIOUS
  <2>2. /\ calls \in Seq(MethodCalls) /\ dialogs \in Seq(MethodCalls)
        /\ signals \in Seq(Responses)
        /\ portal \in {"up", "dead"} /\ portal_version \in Nat
        /\ tokens \in Nat /\ handle_counter \in Nat /\ late_replies \in Nat
    OBVIOUS
  <2>. QED
    BY <1>2, <2>1, <2>2 DEF SessionTypes
<1>5. /\ WaitsForMethods /\ LastCallIsAwaited /\ OneAtATime /\ StartComesLast
      /\ ResponsesAreTrue /\ ErrorIsRetried /\ FailsOnlyWhenRefused
  BY <1>1 DEF WaitsForMethods, LastCallIsAwaited, OneAtATime, StartComesLast,
              ResponsesAreTrue, ErrorIsRetried, FailsOnlyWhenRefused, Awaiting,
              SessionOver, Broken
<1>6. TokensAreHonoured
  BY <1>1, <1>2 DEF TokensAreHonoured
<1>. QED
  BY <1>3, <1>4, <1>5, <1>6 DEF SessionIInv

LEMMA SessionStepInvariant ==
    ASSUME SessionIInv, [SessionNext]_sessionVars PROVE SessionIInv'
<1>1. CASE UNCHANGED sessionVars
  <2>1. UNCHANGED <<portalVars, wire, caller, recordings, history>>
    BY <1>1 DEF sessionVars
  <2>2. In(calls') = In(calls) /\ In(dialogs') = In(dialogs)
          /\ In(signals') = In(signals)
          /\ (HasStart(calls') <=> HasStart(calls))
          /\ (HasStart(dialogs') <=> HasStart(dialogs))
          /\ (HasStart(signals') <=> HasStart(signals))
    BY <2>1 DEF In, HasStart, portalVars, wire
  <2>. USE <2>1, <2>2 DEF SessionIInv, portalVars, wire, caller, recordings,
                          history
  <2>3. SessionTypeOK' /\ SessionTypes' /\ WaitsForMethods'
    BY DEF SessionTypeOK, SessionTypes, Tokens, WaitsForMethods
  <2>4. LastCallIsAwaited' /\ OneAtATime' /\ StartComesLast'
    BY DEF LastCallIsAwaited, OneAtATime, StartComesLast, TokenToUse
  <2>5. /\ ResponsesAreTrue' /\ ErrorIsRetried' /\ TokensAreHonoured'
        /\ FailsOnlyWhenRefused'
    BY DEF ResponsesAreTrue, ErrorIsRetried, TokensAreHonoured,
           FailsOnlyWhenRefused, Retries, TokenToUse
  <2>. QED
    BY <2>3, <2>4, <2>5
<1>2. CASE SessionNext
  BY <1>2, AcceptsStep, RefusesStep, RespondsStep, DiesStep, LateStep,
     LearnStep, CallStep, ReplyStep, ErrorStep, ResponseStep, TokenFileStep,
     RunStep, KilledStep
     DEF SessionNext, Portal, SessionStep
<1>. QED
  BY <1>1, <1>2

LEMMA SessionInvariant == SessionSpec => []SessionIInv
<1>. QED
  BY SessionInitInvariant, SessionStepInvariant, PTL DEF SessionSpec

(* What the session's invariant says of Responses, failures and tokens.    *)
LEMMA SessionIsSafe ==
    SessionIInv => ResponsesMatch /\ FailsOnlyWhenRefused /\ TokenStaysValid
<1>1. SessionIInv => ResponsesMatch
  <2>. SUFFICES ASSUME SessionIInv, waiting = "response", late_replies = 0,
                       NEW i \in DOMAIN signals
                PROVE  /\ signals[i].handle = handle_counter
                       /\ signals[i].method = method
    BY DEF ResponsesMatch
  <2>1. signals[i] \in In(signals)
    BY DEF In
  <2>. QED
    BY <2>1 DEF SessionIInv, OneAtATime, WaitsForMethods, Methods, SessionOver
<1>2. SessionIInv => FailsOnlyWhenRefused
  BY DEF SessionIInv
<1>3. SessionIInv => TokenStaysValid
  BY DEF SessionIInv, TokensAreHonoured, TokenStaysValid, In
<1>. QED
  BY <1>1, <1>2, <1>3

(* The set-up of a portal capture waits only for what it has called, with  *)
(* handles it has made (dbus.c, portal.c).                                 *)
THEOREM SessionTypeCorrect == SessionSpec => []SessionTypeOK
<1>1. SessionIInv => SessionTypeOK
  BY DEF SessionIInv
<1>. QED
  BY <1>1, SessionInvariant, PTL

(* Unless a reply was late, the Response that is taken is of the call it   *)
(* is taken for (dbus.c, gsr_dbus_call_screencast_method).                 *)
THEOREM SessionResponsesMatch == SessionSpec => []ResponsesMatch
BY SessionIsSafe, SessionInvariant, PTL

(* A start that nothing disturbed fails only when the user refuses, with   *)
(* every version of the portal and any number of runs                      *)
(* (gsr_capture_portal_setup_dbus, which tries again without the token).   *)
THEOREM SessionFailsOnlyWhenRefused == SessionSpec => []FailsOnlyWhenRefused
BY SessionIsSafe, SessionInvariant, PTL

(* A token the portal still has is never lost for the next run, unless a   *)
(* reply was late or the program was killed                                *)
(* (gsr_capture_portal_save_restore_token).                                *)
THEOREM SessionTokenStaysValid == SessionSpec => []TokenStaysValid
BY SessionIsSafe, SessionInvariant, PTL

-----------------------------------------------------------------------------
(* The PipeWire stream.                                                    *)

(* What the stream, its messages and the capture are made of.              *)
Image == [buffer : Nat, format : Nat]
StreamTypes ==
    /\ pipewire \in [alive : BOOLEAN, recent : BOOLEAN,
                     format : 0 .. Len(FormatPlanes)]
    /\ sent \in Seq(0 .. Len(FormatPlanes)) /\ queue \in Seq(Nat)
    /\ inbox \in Seq({"done", "format", "error"})
    /\ dmabuf_data \in [1 .. 2 -> Int] /\ taken \in [1 .. 2 -> Int]
    /\ video_damaged \in BOOLEAN /\ external_texture_fallback \in BOOLEAN
    /\ textures \in [plain : Image, external : Image]
    /\ video_frame \in Image
    /\ first \in Nat /\ newest \in Nat
    /\ passed_over \in Nat /\ unimported \in Nat

(* Buffers are used in the order they were sent: what waits is newer than  *)
(* what was processed last, and what the stream holds of that is newer     *)
(* than what the capture has taken.                                        *)
BuffersInOrder ==
    /\ newest <= Len(sent)
    /\ queue # <<>> => queue[Len(queue)] = Len(sent) /\ newest < Len(sent)
    /\ \A i \in DOMAIN queue : queue[i] <= Len(sent)
    /\ passed_over <= Len(sent) /\ unimported <= newest
    /\ \A p \in 1 .. 2 : dmabuf_data[p] \in {-1, 0, newest}
                           /\ taken[p] <= newest
    /\ (\E p \in 1 .. 2 : dmabuf_data[p] > 0) =>
          \A p \in 1 .. 2 : taken[p] < newest
    /\ first <= newest /\ video_frame.buffer <= newest
    /\ textures.plain.buffer <= newest /\ textures.external.buffer <= newest

(* Only a frame that is being drawn has taken descriptors.                 *)
TakenToDraw ==
    /\ video_turn # "draw" => taken = NoPlanes
    /\ phase # "record" => video_turn = "poll"

(* Damage is noted for what the stream holds, but for what is about to be  *)
(* mapped; and the newest buffer is with the stream, in the texture that   *)
(* is about to be drawn, or in the last frame, unless no image was made    *)
(* of it.                                                                  *)
NewestIsKept ==
    phase = "record" =>
        /\ format # 0
        /\ dmabuf_data[1] > 0 /\ video_turn # "map" => video_damaged
        /\ \/ dmabuf_data[1] > 0
           \/ newest \in {first, unimported}
           \/ newest = IF video_turn = "draw" THEN Drawn.buffer
                       ELSE video_frame.buffer

VideoIInv ==
    /\ VideoTypeOK
    /\ StreamTypes
    /\ BuffersInOrder
    /\ TakenToDraw
    /\ NewestIsKept
    /\ NoBufferLost

-----------------------------------------------------------------------------
LEMMA TurnOrder ==
    /\ NextTurn["poll"] = "clear" /\ NextTurn["clear"] = "map"
    /\ NextTurn["map"] = "draw" /\ NextTurn["draw"] = "poll"
    /\ DOMAIN NextTurn = {"poll", "clear", "map", "draw"}
BY DEF NextTurn

LEMMA NoFds == NoPlanes \in [1 .. 2 -> Int] /\ Fds(NoPlanes) = {}
BY DEF NoPlanes, Fds

(* An array whose planes are all given up has no descriptors.              *)
LEMMA GivenUpFds ==
    LET gone == [p \in DOMAIN NoPlanes |-> -1]
    IN  gone \in [1 .. 2 -> Int] /\ Fds(gone) = {}
BY DEF NoPlanes, Fds

(* Stream and capture never hold the same descriptor.                      *)
LEMMA FdsDisjoint ==
    ASSUME StreamTypes, BuffersInOrder
    PROVE  Fds(dmabuf_data) \cap Fds(taken) = {}
<1> SUFFICES ASSUME NEW fd \in Fds(dmabuf_data), fd \in Fds(taken)
             PROVE  FALSE
  OBVIOUS
<1>1. PICK p \in 1 .. 2 : dmabuf_data[p] > 0 /\ fd = <<dmabuf_data[p], p>>
  BY DEF StreamTypes, Fds
<1>2. PICK q \in 1 .. 2 : taken[q] > 0 /\ fd = <<taken[q], q>>
  BY DEF StreamTypes, Fds
<1>3. taken[q] = dmabuf_data[p] /\ taken[q] < newest /\ dmabuf_data[p] = newest
  BY <1>1, <1>2 DEF BuffersInOrder, StreamTypes
<1>. QED
  BY <1>3 DEF StreamTypes

LEMMA VideoInitInvariant == VideoInit => VideoIInv
<1> SUFFICES ASSUME VideoInit PROVE VideoIInv
  OBVIOUS
<1>. USE VideoAssumption
<1>1. StreamTypes
  <2>1. Blank \in Image
    BY DEF Blank, Image
  <2>2. /\ textures \in [plain : Image, external : Image]
        /\ video_frame \in Image
    BY <2>1 DEF VideoInit
  <2>3. pipewire \in [alive : BOOLEAN, recent : BOOLEAN,
                      format : 0 .. Len(FormatPlanes)]
    <3>1. 0 \in 0 .. Len(FormatPlanes)
      OBVIOUS
    <3>. QED
      BY <3>1, Zenon DEF VideoInit
  <2>4. video_damaged \in BOOLEAN /\ external_texture_fallback \in BOOLEAN
    BY DEF VideoInit
  <2>5. /\ sent \in Seq(0 .. Len(FormatPlanes)) /\ queue \in Seq(Nat)
        /\ inbox \in Seq({"done", "format", "error"})
    BY DEF VideoInit
  <2>. QED
    BY <2>2, <2>3, <2>4, <2>5, NoFds DEF VideoInit, StreamTypes
<1>2. VideoTypeOK
  BY NoFds, TurnOrder DEF VideoInit, VideoTypeOK, Blank
<1>3. BuffersInOrder
  BY DEF VideoInit, BuffersInOrder, NoPlanes, Blank
<1>4. TakenToDraw /\ NewestIsKept /\ NoBufferLost
  BY DEF VideoInit, TakenToDraw, NewestIsKept, NoBufferLost
<1>. QED
  BY <1>1, <1>2, <1>3, <1>4 DEF VideoIInv

(* What the server does leaves the descriptors and the main thread alone.  *)
LEMMA PeerStep ==
    ASSUME VideoIInv,
           ServerInfo \/ ServerFormat \/ ServerBuffer \/ PipewireDies
    PROVE  VideoIInv'
<1>. USE VideoAssumption
<1>1. UNCHANGED <<importer, videoStart, drawn, shared, open, picture>>
  BY DEF ServerInfo, ServerFormat, ServerBuffer, PipewireDies
<1>2. pipewire' \in [alive : BOOLEAN, recent : BOOLEAN,
                     format : 0 .. Len(FormatPlanes)]
        /\ pipewire'.format >= pipewire.format
  <2>1. CASE ServerFormat
    <3>1. pipewire.format + 1 \in 0 .. Len(FormatPlanes)
      BY <2>1 DEF VideoIInv, StreamTypes, ServerFormat
    <3>2. pipewire' = [pipewire EXCEPT !.format = pipewire.format + 1]
      BY <2>1 DEF ServerFormat
    <3>3. pipewire' \in [alive : BOOLEAN, recent : BOOLEAN,
                         format : 0 .. Len(FormatPlanes)]
      BY <3>1, <3>2, Zenon DEF VideoIInv, StreamTypes
    <3>4. pipewire'.format = pipewire.format + 1
      BY <3>2 DEF VideoIInv, StreamTypes
    <3>. QED
      BY <3>3, <3>4 DEF VideoIInv, StreamTypes
  <2>2. CASE PipewireDies
    <3>1. pipewire' = [pipewire EXCEPT !.alive = FALSE]
      BY <2>2 DEF PipewireDies
    <3>2. pipewire' \in [alive : BOOLEAN, recent : BOOLEAN,
                         format : 0 .. Len(FormatPlanes)]
      BY <3>1, Zenon DEF VideoIInv, StreamTypes
    <3>3. pipewire'.format = pipewire.format
      BY <3>1 DEF VideoIInv, StreamTypes
    <3>. QED
      BY <3>2, <3>3 DEF VideoIInv, StreamTypes
  <2>3. CASE UNCHANGED pipewire
    BY <2>3 DEF VideoIInv, StreamTypes
  <2>. QED
    BY <2>1, <2>2, <2>3 DEF ServerInfo, ServerBuffer
<1>3. inbox' \in Seq({"done", "format", "error"})
  <2>. DEFINE messages == {"done", "format", "error"}
  <2>1. inbox \in Seq(messages)
    BY DEF VideoIInv, StreamTypes
  <2>2. \/ inbox' = inbox \/ inbox' = <<"done">> \/ inbox' = <<"format">>
        \/ inbox' = Append(inbox, "error")
    BY DEF ServerInfo, ServerFormat, ServerBuffer, PipewireDies
  <2>3. "done" \in messages /\ "format" \in messages /\ "error" \in messages
    OBVIOUS
  <2>. HIDE DEF messages
  <2>4. <<"done">> \in Seq(messages) /\ <<"format">> \in Seq(messages)
    BY <2>3
  <2>5. Append(inbox, "error") \in Seq(messages)
    BY <2>1, <2>3
  <2>6. inbox' \in Seq(messages)
    BY <2>1, <2>2, <2>4, <2>5, Zenon
  <2>. QED
    BY <2>6 DEF messages
<1>4. /\ sent' \in Seq(0 .. Len(FormatPlanes)) /\ queue' \in Seq(Nat)
      /\ Len(sent') <= MaxBuffers /\ Len(sent') >= Len(sent)
      /\ queue' # <<>> =>
            queue'[Len(queue')] = Len(sent') /\ newest < Len(sent')
      /\ \A i \in DOMAIN queue' : queue'[i] <= Len(sent')
  <2>1. CASE ServerBuffer
    <3>1. PICK held \in {0, pipewire.format} : sent' = Append(sent, held)
      BY <2>1 DEF ServerBuffer
    <3>2. /\ queue' = Append(queue, Len(sent')) /\ Len(sent) < MaxBuffers
          /\ held \in 0 .. Len(FormatPlanes)
      BY <2>1 DEF ServerBuffer, VideoIInv, StreamTypes
    <3>3. /\ sent \in Seq(0 .. Len(FormatPlanes)) /\ queue \in Seq(Nat)
          /\ newest <= Len(sent) /\ newest \in Nat
          /\ \A i \in DOMAIN queue : queue[i] <= Len(sent)
      BY DEF VideoIInv, StreamTypes, BuffersInOrder
    <3>4. sent' \in Seq(0 .. Len(FormatPlanes)) /\ Len(sent') = Len(sent) + 1
      BY <3>1, <3>2, <3>3
    <3>5. queue' \in Seq(Nat) /\ Len(queue') = Len(queue) + 1
            /\ queue'[Len(queue')] = Len(sent')
      BY <3>2, <3>3, <3>4
    <3>6. \A i \in DOMAIN queue' : queue'[i] <= Len(sent')
      BY <3>2, <3>3, <3>4, <3>5
    <3>. QED
      BY <3>2, <3>3, <3>4, <3>5, <3>6
  <2>2. CASE ServerFormat
    BY <2>2 DEF VideoIInv, VideoTypeOK, StreamTypes, BuffersInOrder,
                ServerFormat
  <2>3. CASE UNCHANGED <<sent, queue>>
    BY <2>3 DEF VideoIInv, VideoTypeOK, StreamTypes, BuffersInOrder
  <2>. QED
    BY <2>1, <2>2, <2>3 DEF ServerInfo, PipewireDies
<1>. USE <1>1, <1>2, <1>3, <1>4
         DEF videoStart, drawn, shared, picture, VideoIInv
<1>5. StreamTypes'
  BY DEF StreamTypes
<1>6. VideoTypeOK'
  <2>1. open' = Fds(dmabuf_data)' \cup Fds(taken)'
    BY DEF VideoTypeOK, Fds
  <2>2. Len(sent) \in Nat /\ Len(sent') \in Nat
    BY DEF StreamTypes
  <2>3. pipewire.format \in Nat /\ pipewire'.format \in 0 .. Len(FormatPlanes)
    BY DEF StreamTypes
  <2>4. {video_frame.buffer, first, newest, passed_over, unimported}
            \subseteq 0 .. Len(sent')
    <3>1. 0 .. Len(sent) \subseteq 0 .. Len(sent')
      BY <2>2
    <3>2. {video_frame.buffer, first, newest, passed_over, unimported}
              \subseteq 0 .. Len(sent)
      BY DEF VideoTypeOK
    <3>. QED
      BY <3>1, <3>2
  <2>. QED
    BY <2>1, <2>2, <2>3, <2>4 DEF VideoTypeOK
<1>7. BuffersInOrder' /\ TakenToDraw'
  <2>1. /\ newest \in Nat /\ passed_over \in Nat
        /\ Len(sent) \in Nat /\ Len(sent') \in Nat
    BY DEF StreamTypes
  <2>2. newest' <= Len(sent') /\ passed_over' <= Len(sent')
    BY <2>1 DEF BuffersInOrder
  <2>3. BuffersInOrder'
    BY <2>2 DEF BuffersInOrder
  <2>4. TakenToDraw'
    BY DEF TakenToDraw
  <2>. QED
    BY <2>3, <2>4
<1>8. NewestIsKept' /\ NoBufferLost'
  BY DEF NewestIsKept, NoBufferLost, Drawn
<1>. QED
  BY <1>5, <1>6, <1>7, <1>8

LEMMA CoreStep == ASSUME VideoIInv, OnCoreOrParam PROVE VideoIInv'
<1>. USE VideoAssumption
<1>1. UNCHANGED <<pipewire, sent, queue, importer, first, drawn, dmabuf_data,
                  video_damaged, newest, passed_over, open, picture>>
  BY DEF OnCoreOrParam
<1>2. inbox' \in Seq({"done", "format", "error"})
  BY DEF VideoIInv, StreamTypes, OnCoreOrParam
<1>3. format' \in 0 .. pipewire.format /\ (format # 0 => format' # 0)
  BY DEF VideoIInv, VideoTypeOK, StreamTypes, OnCoreOrParam, NewFormat
<1>4. phase' = "record" <=> phase = "record"
  BY DEF OnCoreOrParam, Signalled
<1>. USE <1>1, <1>2, <1>3, <1>4 DEF drawn, picture, VideoIInv
<1>5. StreamTypes'
  BY DEF StreamTypes
<1>6. VideoTypeOK'
  BY DEF VideoTypeOK, StreamTypes, Fds
<1>7. BuffersInOrder' /\ TakenToDraw'
  BY DEF BuffersInOrder, StreamTypes, TakenToDraw
<1>8. NewestIsKept' /\ NoBufferLost'
  BY DEF NewestIsKept, NoBufferLost, Drawn
<1>. QED
  BY <1>5, <1>6, <1>7, <1>8

(* A new buffer replaces the descriptors the stream holds, which are not   *)
(* those that are being drawn.                                             *)
LEMMA ProcessStep == ASSUME VideoIInv, OnProcess PROVE VideoIInv'
<1>. USE VideoAssumption
<1>. DEFINE b == queue[Len(queue)]
<1>1. b = Len(sent) /\ newest < b /\ b \in 1 .. Len(sent)
  BY DEF VideoIInv, StreamTypes, BuffersInOrder, OnProcess
<1>2. FormatPlanes[sent[b]] \in 1 .. 2
  BY <1>1 DEF VideoIInv, StreamTypes, OnProcess
<1>3. /\ dmabuf_data' \in [1 .. 2 -> Int] /\ dmabuf_data'[1] = b
      /\ \A p \in 1 .. 2 : dmabuf_data'[p] \in {-1, b}
  BY <1>1, <1>2 DEF OnProcess, NoPlanes
<1>4. /\ newest' = b /\ queue' = <<>> /\ video_damaged' = TRUE
      /\ UNCHANGED <<pipewire, sent, inbox, importer, videoStart, drawn,
                     format, passed_over, picture>>
  BY DEF OnProcess
<1>5. open' = Fds(dmabuf_data)' \cup Fds(taken)
  BY FdsDisjoint DEF OnProcess, ReplacedFds, VideoIInv, VideoTypeOK
<1>. HIDE DEF b
<1>. USE <1>1, <1>3, <1>4, <1>5 DEF videoStart, drawn, picture, VideoIInv
<1>6. StreamTypes'
  BY DEF StreamTypes
<1>7. VideoTypeOK'
  BY DEF VideoTypeOK, StreamTypes, BuffersInOrder, Fds
<1>8. BuffersInOrder' /\ TakenToDraw'
  <2>1. \A p \in 1 .. 2 : taken'[p] < newest'
    <3>1. taken' = taken /\ newest' = b /\ newest \in Nat /\ b \in Nat
      BY DEF StreamTypes, drawn
    <3>2. \A p \in 1 .. 2 : taken[p] \in Int /\ taken[p] <= newest
      BY DEF BuffersInOrder, StreamTypes
    <3>. QED
      BY <1>1, <3>1, <3>2
  <2>2. /\ first' <= newest' /\ video_frame'.buffer <= newest'
        /\ textures'.plain.buffer <= newest'
        /\ textures'.external.buffer <= newest'
    <3>1. /\ first \in Nat /\ video_frame.buffer \in Nat
          /\ textures.plain.buffer \in Nat
          /\ textures.external.buffer \in Nat /\ newest \in Nat
      BY DEF StreamTypes, Image
    <3>2. /\ first <= newest /\ video_frame.buffer <= newest
          /\ textures.plain.buffer <= newest
          /\ textures.external.buffer <= newest
      BY DEF BuffersInOrder
    <3>3. UNCHANGED <<first, video_frame, textures>> /\ newest' \in Nat
      OBVIOUS
    <3>. QED
      BY <3>1, <3>2, <3>3
  <2>3. \A p \in 1 .. 2 : dmabuf_data'[p] \in {-1, 0, newest'}
                            /\ taken'[p] <= newest'
    BY <2>1 DEF StreamTypes
  <2>4. /\ newest' <= Len(sent') /\ passed_over' <= Len(sent')
        /\ unimported' <= newest'
    BY DEF StreamTypes, BuffersInOrder
  <2>. QED
    BY <2>1, <2>2, <2>3, <2>4 DEF BuffersInOrder, TakenToDraw
<1>9. NewestIsKept' /\ NoBufferLost'
  BY DEF NewestIsKept, NoBufferLost, Drawn
<1>. QED
  BY <1>6, <1>7, <1>8, <1>9

(* A buffer without a picture only empties the queue.                      *)
LEMMA ProcessEmptyStep == ASSUME VideoIInv, OnProcessEmpty PROVE VideoIInv'
<1>. USE VideoAssumption
<1>1. /\ queue' = <<>>
      /\ UNCHANGED <<pipewire, sent, inbox, importer, videoStart, drawn,
                     format, dmabuf_data, video_damaged, newest, open,
                     picture>>
  BY DEF OnProcessEmpty
<1>2. passed_over' \in Nat /\ passed_over' <= Len(sent)
  <2>1. CASE passed_over' = passed_over
    BY <2>1 DEF VideoIInv, StreamTypes, BuffersInOrder
  <2>2. CASE \E i \in DOMAIN queue : passed_over' = queue[i]
    <3>1. PICK i \in DOMAIN queue : passed_over' = queue[i]
      BY <2>2
    <3>2. queue \in Seq(Nat) /\ queue[i] <= Len(sent)
      BY <3>1 DEF VideoIInv, StreamTypes, BuffersInOrder
    <3>. QED
      BY <3>1, <3>2
  <2>. QED
    BY <2>1, <2>2 DEF OnProcessEmpty
<1>. USE <1>1, <1>2 DEF videoStart, drawn, picture, VideoIInv
<1>3. StreamTypes'
  BY DEF StreamTypes
<1>4. VideoTypeOK'
  BY DEF VideoTypeOK, StreamTypes, Fds
<1>5. BuffersInOrder' /\ TakenToDraw'
  BY DEF BuffersInOrder, StreamTypes, TakenToDraw
<1>6. NewestIsKept' /\ NoBufferLost'
  BY DEF NewestIsKept, NoBufferLost, Drawn
<1>. QED
  BY <1>3, <1>4, <1>5, <1>6

(* gsr_capture_portal_stop leaves nothing open.                            *)
LEMMA StopStep ==
    ASSUME VideoIInv, NEW how \in VideoOver, StopAs(how)
    PROVE  VideoIInv'
<1>. USE VideoAssumption
<1>1. /\ taken' = NoPlanes /\ dmabuf_data' = NoPlanes
      /\ queue' = <<>> /\ inbox' = <<>> /\ video_turn' = "poll"
      /\ phase' # "record"
      /\ UNCHANGED <<pipewire, sent, importer, server_version, first,
                     video_frame, format, video_damaged, newest,
                     passed_over, picture>>
  BY DEF StopAs, VideoOver
<1>2. open' = {}
  BY DEF StopAs, CloseFds, VideoIInv, VideoTypeOK
<1>. USE <1>1, <1>2, NoFds DEF picture, VideoIInv
<1>3. StreamTypes'
  BY DEF StreamTypes
<1>4. VideoTypeOK'
  BY TurnOrder DEF VideoTypeOK
<1>5. BuffersInOrder' /\ TakenToDraw'
  BY DEF BuffersInOrder, StreamTypes, TakenToDraw, NoPlanes
<1>6. NewestIsKept' /\ NoBufferLost'
  BY DEF NewestIsKept, NoBufferLost
<1>. QED
  BY <1>3, <1>4, <1>5, <1>6

(* What mapping the newest buffer does to the textures.                    *)
LEMMA Mapped ==
    ASSUME VideoIInv, MapTexture
    PROVE  /\ dmabuf_data[1] = newest /\ newest > 0 /\ format # 0
           /\ dmabuf_data' = [p \in DOMAIN NoPlanes |-> -1]
           /\ textures' \in [plain : Image, external : Image]
           /\ textures'.plain.buffer <= newest
           /\ textures'.external.buffer <= newest
           /\ Drawn'.buffer = newest \/ unimported' = newest
           /\ unimported' \in Nat /\ unimported' <= newest
           /\ external_texture_fallback' \in BOOLEAN
<1>. USE VideoAssumption
<1>1. dmabuf_data[1] = newest /\ newest > 0 /\ format \in Nat \ {0}
  <2>1. dmabuf_data[1] > 0 /\ format # 0
    BY DEF MapTexture, HasTexture
  <2>2. dmabuf_data[1] \in {-1, 0, newest} /\ format \in Nat
    BY DEF VideoIInv, BuffersInOrder, StreamTypes, VideoTypeOK
  <2>. QED
    BY <2>1, <2>2
<1>. DEFINE shown == [buffer |-> dmabuf_data[1], format |-> format]
<1>2. PICK image \in BOOLEAN :
        /\ external_texture_fallback' =
               (external_texture_fallback \/ (image /\ ~importer.plain))
        /\ textures' = IF ~image THEN textures
                       ELSE IF external_texture_fallback'
                       THEN [textures EXCEPT !.external = shown]
                       ELSE [textures EXCEPT !.plain = shown]
        /\ unimported' = IF image THEN unimported ELSE dmabuf_data[1]
  BY Zenon DEF MapTexture
<1>3. external_texture_fallback' \in BOOLEAN
  BY <1>2, Zenon
<1>4. shown \in Image /\ shown.buffer = newest
  BY <1>1 DEF Image, VideoIInv, StreamTypes
<1>5. unimported' \in Nat /\ unimported' <= newest
  BY <1>1, <1>2 DEF VideoIInv, StreamTypes, BuffersInOrder
<1>. HIDE DEF shown
<1>6. /\ textures' \in [plain : Image, external : Image]
      /\ textures'.plain.buffer <= newest
      /\ textures'.external.buffer <= newest
      /\ Drawn'.buffer = newest \/ unimported' = newest
  <2>1. /\ textures \in [plain : Image, external : Image] /\ newest \in Nat
        /\ textures.plain.buffer <= newest
        /\ textures.external.buffer <= newest
    BY DEF VideoIInv, StreamTypes, BuffersInOrder
  <2>2. CASE ~image
    BY <1>1, <1>2, <2>1, <2>2
  <2>3. CASE image /\ external_texture_fallback'
    <3>1. textures' = [textures EXCEPT !.external = shown]
      BY <1>2, <2>3
    <3>. QED
      BY <1>4, <2>1, <2>3, <3>1 DEF Drawn
  <2>4. CASE image /\ ~external_texture_fallback'
    <3>1. textures' = [textures EXCEPT !.plain = shown]
      BY <1>2, <2>4
    <3>. QED
      BY <1>4, <2>1, <2>4, <3>1 DEF Drawn
  <2>. QED
    BY <2>2, <2>3, <2>4
<1>. QED
  BY <1>1, <1>3, <1>5, <1>6 DEF MapTexture

LEMMA DimensionsStep == ASSUME VideoIInv, GetDimensions PROVE VideoIInv'
<1>. USE VideoAssumption, Mapped
<1>1. MapTexture /\ phase = "frames" /\ phase' = "record"
        /\ first' = newest /\ video_turn = "poll" /\ taken = NoPlanes
  BY DEF GetDimensions, VideoIInv, TakenToDraw
<1>2. /\ open' = {}
      /\ UNCHANGED <<peer, importer, server_version, drawn, format,
                     video_damaged, newest, passed_over>>
  BY <1>1, NoFds DEF GetDimensions, CloseFds, VideoIInv, VideoTypeOK
<1>. USE <1>1, <1>2, NoFds, GivenUpFds DEF peer, drawn, VideoIInv
<1>3. StreamTypes'
  BY DEF StreamTypes
<1>4. VideoTypeOK'
  <2>1. open' = Fds(dmabuf_data)' \cup Fds(taken)'
    BY DEF Fds
  <2>2. {first', unimported'} \subseteq 0 .. Len(sent)
    <3>1. newest \in Nat /\ newest <= Len(sent) /\ Len(sent) \in Nat
      BY DEF BuffersInOrder, StreamTypes
    <3>2. first' = newest /\ unimported' \in Nat /\ unimported' <= newest
      OBVIOUS
    <3>. QED
      BY <3>1, <3>2
  <2>3. {video_frame.buffer, newest, passed_over} \subseteq 0 .. Len(sent)
    BY DEF VideoTypeOK
  <2>4. UNCHANGED <<sent, video_frame, newest, passed_over>>
    OBVIOUS
  <2>5. {video_frame.buffer, first, newest, passed_over, unimported}'
            \subseteq 0 .. Len(sent)'
    BY <2>2, <2>3, <2>4
  <2>. QED
    BY <2>1, <2>5 DEF VideoTypeOK
<1>5. BuffersInOrder' /\ TakenToDraw'
  BY DEF BuffersInOrder, StreamTypes, TakenToDraw, NoPlanes
<1>6. NewestIsKept' /\ NoBufferLost'
  BY DEF NewestIsKept, NoBufferLost, NoPlanes
<1>. QED
  BY <1>3, <1>4, <1>5, <1>6

LEMMA MapsStep == ASSUME VideoIInv, CaptureMaps PROVE VideoIInv'
<1>. USE VideoAssumption, Mapped, TurnOrder
<1>1. /\ MapTexture /\ phase = "record" /\ video_turn = "map"
      /\ video_turn' = "draw" /\ taken = NoPlanes /\ taken' = dmabuf_data
      /\ UNCHANGED <<peer, importer, videoStart, video_frame, format,
                     video_damaged, newest, passed_over, open>>
  BY DEF CaptureMaps, Turns, VideoIInv, TakenToDraw
<1>. USE <1>1, NoFds, GivenUpFds DEF peer, videoStart, VideoIInv
<1>3. StreamTypes'
  BY DEF StreamTypes
<1>4. VideoTypeOK'
  <2>1. open' = Fds(dmabuf_data)' \cup Fds(taken)'
    BY DEF VideoTypeOK, Fds
  <2>. QED
    BY <2>1 DEF VideoTypeOK
<1>5. BuffersInOrder' /\ TakenToDraw'
  <2>1. BuffersInOrder'
    <3>1. /\ newest \in Nat /\ newest' = newest /\ taken' = dmabuf_data
          /\ dmabuf_data \in [1 .. 2 -> Int]
      BY DEF StreamTypes
    <3>2. \A p \in 1 .. 2 : dmabuf_data'[p] = -1
      BY DEF NoPlanes
    <3>3. \A p \in 1 .. 2 : taken'[p] <= newest'
      BY <3>1 DEF BuffersInOrder
    <3>. QED
      BY <3>1, <3>2, <3>3 DEF BuffersInOrder
  <2>2. TakenToDraw'
    BY DEF TakenToDraw
  <2>. QED
    BY <2>1, <2>2
<1>6. NewestIsKept' /\ NoBufferLost'
  BY DEF NewestIsKept, NoBufferLost, NoPlanes
<1>. QED
  BY <1>3, <1>4, <1>5, <1>6

LEMMA DrawStep == ASSUME VideoIInv, Draw PROVE VideoIInv'
<1>. USE VideoAssumption, TurnOrder
<1>1. /\ phase = "record" /\ video_turn = "draw" /\ video_turn' = "poll"
      /\ video_frame' = Drawn /\ taken' = NoPlanes
      /\ UNCHANGED <<peer, importer, videoStart, shared, picture>>
  BY DEF Draw, Turns
<1>2. open' = Fds(dmabuf_data)
  BY FdsDisjoint DEF Draw, CloseFds, VideoIInv, VideoTypeOK
<1>. USE <1>1, <1>2, NoFds DEF peer, videoStart, shared, picture, VideoIInv
<1>3. StreamTypes'
  BY DEF StreamTypes, Drawn
<1>4. VideoTypeOK'
  <2>1. open' = Fds(dmabuf_data)' \cup Fds(taken)'
    BY DEF Fds
  <2>2. Drawn.buffer \in 0 .. Len(sent)
    BY DEF StreamTypes, BuffersInOrder, Drawn, Image
  <2>. QED
    BY <2>1, <2>2 DEF VideoTypeOK
<1>5. BuffersInOrder' /\ TakenToDraw'
  BY DEF BuffersInOrder, StreamTypes, TakenToDraw, NoPlanes, Drawn
<1>6. NewestIsKept' /\ NoBufferLost'
  BY DEF NewestIsKept, NoBufferLost
<1>. QED
  BY <1>3, <1>4, <1>5, <1>6

(* The steps that only move on leave buffers and descriptors alone.        *)
LEMMA TurnStep ==
    ASSUME VideoIInv,
           \/ ConnectRemote \/ ConnectStream \/ Poll \/ ClearVideoDamage
           \/ CaptureRepeats \/ UNCHANGED videoVars
    PROVE  VideoIInv'
<1>. USE VideoAssumption, TurnOrder
<1>1. /\ UNCHANGED <<peer, importer, taken, video_frame, format, dmabuf_data,
                     newest, passed_over, first, open, picture>>
      /\ video_damaged' \in BOOLEAN
      /\ phase' = "record" <=> phase = "record"
      /\ phase' # "record" => video_turn' = video_turn
  BY DEF ConnectRemote, ConnectStream, Poll, ClearVideoDamage, CaptureRepeats,
         videoVars, videoStart, drawn, shared, Turns, VideoIInv, StreamTypes
<1>2. \/ video_turn' = video_turn /\ video_damaged' = video_damaged
      \/ /\ video_turn = "poll" /\ video_turn' = "clear"
         /\ video_damaged' = video_damaged
      \/ video_turn = "clear" /\ video_turn' = "map"
      \/ /\ video_turn = "map" /\ video_turn' = "poll" /\ ~HasTexture
         /\ video_damaged' = video_damaged
  BY DEF ConnectRemote, ConnectStream, Poll, ClearVideoDamage, CaptureRepeats,
         videoVars, videoStart, drawn, shared, Turns
<1>. USE <1>1 DEF peer, picture, VideoIInv
<1>3. StreamTypes'
  BY DEF StreamTypes
<1>4. VideoTypeOK'
  BY <1>2 DEF VideoTypeOK, StreamTypes, Fds
<1>5. BuffersInOrder' /\ TakenToDraw'
  BY <1>2 DEF BuffersInOrder, StreamTypes, TakenToDraw
<1>6. NewestIsKept' /\ NoBufferLost'
  BY <1>2 DEF NewestIsKept, NoBufferLost, Drawn, HasTexture
<1>. QED
  BY <1>3, <1>4, <1>5, <1>6

LEMMA VideoStepInvariant ==
    VideoIInv /\ [VideoNext]_videoVars => VideoIInv'
BY PeerStep, CoreStep, ProcessStep, ProcessEmptyStep, StopStep,
   DimensionsStep, MapsStep, DrawStep, TurnStep
   DEF VideoNext, PipewireThread, StartStep, CaptureFrame, VideoStartFails,
       StopRecording, VideoOver

LEMMA VideoInvariant == VideoSpec => []VideoIInv
BY VideoInitInvariant, VideoStepInvariant, PTL DEF VideoSpec

(* What the stream's thread and the main thread share keeps its type       *)
(* (pipewire_video.c).                                                     *)
THEOREM VideoTypeCorrect == VideoSpec => []VideoTypeOK
<1>1. VideoIInv => VideoTypeOK
  BY DEF VideoIInv
<1>. QED
  BY VideoInvariant, <1>1, PTL

(* Whenever the main loop looks, the buffer that was processed last is     *)
(* drawn, or the damage it did still noted; one no image could be made of  *)
(* leaves the picture before it (gsr_pipewire_video_map_texture).          *)
THEOREM VideoNoBufferLost == VideoSpec => []NoBufferLost
<1>1. VideoIInv => NoBufferLost
  BY DEF VideoIInv
<1>. QED
  BY VideoInvariant, <1>1, PTL

-----------------------------------------------------------------------------
(* The sound device.                                                       *)

SoundTypes ==
    /\ read_data \in Seq(Bytes) /\ read_index \in Nat
    /\ read_length \in 0 .. MaxFragment
    /\ task \in Finished => at_loop = "done"

(* What is in the chunk begun and in the fragment left over is what        *)
(* follows the chunk returned last, and goes up to the byte received last. *)
FollowsFrom(base) ==
    /\ \A i \in 1 .. output_index : output_data[i] = Byte(base + i)
    /\ \A j \in 1 .. read_length :
          read_data[read_index + j] = Byte(base + output_index + j)
    /\ received = Byte(base + output_index + read_length)
    /\ chunk # <<>> => chunk[ChunkLength] = base

BytesFollow == \E base \in Bytes : FollowsFrom(base)

SoundIInv == SoundTypeOK /\ SoundTypes /\ BytesFollow

-----------------------------------------------------------------------------
LEMMA RoundTheCircle ==
    ASSUME NEW C \in Nat \ {0}, NEW a \in Nat, NEW b \in Nat, a + b < 2 * C
    PROVE  ((a % C) + b) % C = (a + b) % C /\ a % C \in 0 .. C - 1
<1>1. CASE a < C
  <2>1. a % C = a
    BY <1>1
  <2>. QED
    BY <1>1, <2>1
<1>2. CASE a >= C
  <2>1. a % C = a - C
    BY <1>2
  <2>2. (a + b) % C = a + b - C /\ (a - C + b) % C = a - C + b
    BY <1>2
  <2>. QED
    BY <1>2, <2>1, <2>2
<1>. QED
  BY <1>1, <1>2

LEMMA CircleIsLong ==
    /\ ChunkLength \in Nat \ {0} /\ MaxFragment \in Nat \ {0}
    /\ Circle \in Nat \ {0} /\ Circle = 2 * (ChunkLength + MaxFragment)
    /\ Bytes = 0 .. Circle - 1
BY SoundAssumption DEF Circle, Bytes

LEMMA ByteIsByte ==
    /\ \A a \in Nat : Byte(a) \in Bytes
    /\ \A a \in Bytes : Byte(a) = a
    /\ Byte(Circle) = 0
BY CircleIsLong DEF Byte

LEMMA ByteOfSum ==
    ASSUME NEW a \in Nat, NEW b \in Nat, a + b < 2 * Circle
    PROVE  Byte(Byte(a) + b) = Byte(a + b)
BY CircleIsLong, RoundTheCircle DEF Byte

LEMMA ByteOfTurn ==
    ASSUME NEW a \in Nat, a < 2 * Circle PROVE Byte(a + Circle) = Byte(a)
<1>. DEFINE C == Circle
<1>1. C \in Nat \ {0}
  BY CircleIsLong
<1>2. Byte(a + Circle) = (a + C) % C /\ Byte(a) = a % C
  BY DEF Byte
<1>. HIDE DEF C
<1>3. CASE a < C
  BY <1>1, <1>2, <1>3
<1>4. CASE a >= C
  <2>1. a % C = a - C /\ (a + C) % C = a - C
    BY <1>1, <1>4 DEF C
  <2>. QED
    BY <1>2, <2>1
<1>. QED
  BY <1>1, <1>3, <1>4

LEMMA SoundInitInvariant == SoundInit => SoundIInv
<1>. SUFFICES ASSUME SoundInit PROVE SoundIInv
  OBVIOUS
<1>1. From(0, ChunkLength) \in [1 .. ChunkLength -> Bytes]
  <2>1. \A i \in 1 .. ChunkLength : Byte(0 + i) \in Bytes
    BY ByteIsByte
  <2>. QED
    BY <2>1 DEF From
<1>2. SoundTypeOK
  <2>1. late \in BOOLEAN
    BY DEF SoundInit
  <2>2. 0 \in 0 .. MaxSources /\ 0 \in 0 .. ChunkLength - 1 /\ 0 \in Bytes
    BY CircleIsLong, SoundAssumption
  <2>. QED
    BY <1>1, <2>1, <2>2
       DEF SoundInit, SoundTypeOK, Queries, Finished
<1>3. SoundTypes
  BY CircleIsLong DEF SoundInit, SoundTypes, Finished
<1>4. FollowsFrom(0)
  <2>1. 0 \in Bytes /\ Byte(0) = 0
    BY CircleIsLong, ByteIsByte
  <2>. QED
    BY <2>1 DEF SoundInit, FollowsFrom
<1>5. 0 \in Bytes
  BY CircleIsLong
<1>. QED
  BY <1>2, <1>3, <1>4, <1>5 DEF SoundIInv, BytesFollow

(* What copying a part of the fragment makes of the chunk.                 *)
LEMMA CopyFollows ==
    ASSUME SoundTypeOK, SoundTypes, NEW base \in Bytes, FollowsFrom(base),
           NEW n \in 0 .. read_length, output_index + n <= ChunkLength
    PROVE  /\ Copied(n) \in [1 .. ChunkLength -> Bytes]
           /\ \A i \in 1 .. output_index + n : Copied(n)[i] = Byte(base + i)
<1>1. \A i \in 1 .. ChunkLength :
         Copied(n)[i] = IF i \in output_index + 1 .. output_index + n
                        THEN read_data[read_index + i - output_index]
                        ELSE output_data[i]
  BY DEF Copied
<1>2. \A i \in 1 .. output_index + n : Copied(n)[i] = Byte(base + i)
  <2>. SUFFICES ASSUME NEW i \in 1 .. output_index + n
                PROVE  Copied(n)[i] = Byte(base + i)
    OBVIOUS
  <2>1. i \in 1 .. ChunkLength /\ output_index \in Nat /\ read_index \in Nat
          /\ n \in Nat /\ base \in Nat
    BY CircleIsLong DEF SoundTypeOK, SoundTypes
  <2>2. CASE i \in 1 .. output_index
    BY <1>1, <2>1, <2>2 DEF FollowsFrom
  <2>3. CASE i \in output_index + 1 .. output_index + n
    <3>1. i - output_index \in 1 .. read_length
            /\ read_index + i - output_index = read_index + (i - output_index)
            /\ base + output_index + (i - output_index) = base + i
      BY <2>1, <2>3 DEF SoundTypes
    <3>2. read_data[read_index + (i - output_index)]
            = Byte(base + output_index + (i - output_index))
      BY <3>1 DEF FollowsFrom
    <3>. QED
      BY <1>1, <2>1, <2>3, <3>1, <3>2
  <2>. QED
    BY <2>1, <2>2, <2>3
<1>3. \A i \in 1 .. ChunkLength : Copied(n)[i] \in Bytes
  <2>. SUFFICES ASSUME NEW i \in 1 .. ChunkLength PROVE Copied(n)[i] \in Bytes
    OBVIOUS
  <2>1. CASE i \in 1 .. output_index + n
    <3>1. base + i \in Nat
      BY CircleIsLong
    <3>. QED
      BY <1>2, <2>1, <3>1, ByteIsByte
  <2>2. CASE i \notin 1 .. output_index + n
    BY <1>1, <2>2 DEF SoundTypeOK
  <2>. QED
    BY <2>1, <2>2
<1>4. Copied(n) = [i \in 1 .. ChunkLength |-> Copied(n)[i]]
  BY DEF Copied
<1>. QED
  BY <1>2, <1>3, <1>4

(* A chunk of bytes that follow one another is the one that starts where   *)
(* it starts.                                                              *)
LEMMA ChunkIsFrom ==
    ASSUME NEW base \in Bytes, NEW c \in [1 .. ChunkLength -> Bytes],
           \A i \in 1 .. ChunkLength : c[i] = Byte(base + i)
    PROVE  c = From(c[1] - 1 + Circle, ChunkLength)
<1>1. c[1] = Byte(base + 1) /\ base \in 0 .. Circle - 1
  BY CircleIsLong
<1>2. \A i \in 1 .. ChunkLength :
         Byte(c[1] - 1 + Circle + i) = Byte(base + i)
  <2>. SUFFICES ASSUME NEW i \in 1 .. ChunkLength
                PROVE  Byte(c[1] - 1 + Circle + i) = Byte(base + i)
    OBVIOUS
  <2>1. CASE base + 1 < Circle
    <3>1. base + 1 \in Bytes
      BY <1>1, <2>1, CircleIsLong
    <3>2. c[1] = base + 1
      BY <1>1, <3>1, ByteIsByte
    <3>3. c[1] - 1 + Circle + i = base + i + Circle
      BY <1>1, <3>2, CircleIsLong
    <3>4. base + i \in Nat
      BY <1>1
    <3>5. Byte(base + i + Circle) = Byte(base + i)
      BY <1>1, <3>4, CircleIsLong, ByteOfTurn
    <3>. QED
      BY <3>3, <3>5
  <2>2. CASE base + 1 = Circle
    <3>1. c[1] = 0
      BY <1>1, <2>2, ByteIsByte
    <3>2. c[1] - 1 + Circle + i = base + i
      BY <1>1, <2>2, <3>1, CircleIsLong
    <3>. QED
      BY <3>2
  <2>. QED
    BY <1>1, <2>1, <2>2, CircleIsLong
<1>3. c = [i \in 1 .. ChunkLength |-> Byte(base + i)]
  OBVIOUS
<1>4. From(c[1] - 1 + Circle, ChunkLength)
        = [i \in 1 .. ChunkLength |-> Byte(c[1] - 1 + Circle + i)]
  BY DEF From
<1>. QED
  BY <1>2, <1>3, <1>4

LEMMA CopyPartStep ==
    ASSUME SoundIInv, CopyPart
    PROVE  /\ SoundIInv'
           /\ chunk' = From(chunk'[1] - 1 + Circle, ChunkLength)
           /\ chunk # <<>> => chunk'[1] = Byte(chunk[ChunkLength] + 1)
<1>. DEFINE space == ChunkLength - output_index
<1>1. /\ task = "read" /\ task' = "between" /\ at_loop' = at_loop
      /\ space < read_length
      /\ output_data' = Copied(space) /\ chunk' = output_data'
      /\ read_index' = read_index + space /\ read_length' = read_length - space
      /\ output_index' = 0
      /\ UNCHANGED <<connection, query, read_data, received, late>>
  BY DEF CopyPart, Returns
<1>2. /\ SoundTypeOK /\ SoundTypes
      /\ output_index \in 0 .. ChunkLength - 1
      /\ read_length \in 0 .. MaxFragment
  BY DEF SoundIInv, SoundTypeOK, SoundTypes
<1>3. PICK base \in Bytes : FollowsFrom(base)
  BY DEF SoundIInv, BytesFollow
<1>4. /\ space \in 1 .. ChunkLength /\ space \in 0 .. read_length
      /\ output_index + space = ChunkLength
  BY <1>1, <1>2, CircleIsLong
<1>5. /\ output_data' \in [1 .. ChunkLength -> Bytes]
      /\ \A i \in 1 .. ChunkLength : output_data'[i] = Byte(base + i)
  BY <1>1, <1>2, <1>3, <1>4, CopyFollows
<1>. DEFINE next == Byte(base + ChunkLength)
<1>6. next \in Bytes /\ chunk'[ChunkLength] = next /\ base \in 0 .. Circle - 1
  BY <1>1, <1>5, CircleIsLong
<1>7. \A j \in 0 .. MaxFragment :
         Byte(next + j) = Byte(base + ChunkLength + j)
  <2>. SUFFICES ASSUME NEW j \in 0 .. MaxFragment
                PROVE  Byte(next + j) = Byte(base + ChunkLength + j)
    OBVIOUS
  <2>1. base + ChunkLength \in Nat /\ j \in Nat
          /\ base + ChunkLength + j < 2 * Circle
    BY <1>6, CircleIsLong
  <2>. QED
    BY <2>1, ByteOfSum
<1>. HIDE DEF space
<1>8. \A j \in 1 .. read_length' :
         read_data'[read_index' + j] = Byte(next + 0 + j)
  <2>. SUFFICES ASSUME NEW j \in 1 .. read_length - space
                PROVE  read_data[read_index + space + j] = Byte(next + j)
    BY <1>1, <1>6, CircleIsLong
  <2>1. space + j \in 1 .. read_length /\ j \in 0 .. MaxFragment
          /\ read_index + (space + j) = read_index + space + j
          /\ base + output_index + (space + j) = base + ChunkLength + j
    BY <1>2, <1>4, <1>6, CircleIsLong DEF SoundTypes
  <2>2. read_data[read_index + (space + j)]
          = Byte(base + output_index + (space + j))
    BY <1>3, <2>1 DEF FollowsFrom
  <2>. QED
    BY <1>7, <2>1, <2>2
<1>9. received' = Byte(next + 0 + read_length')
  <2>1. read_length - space \in 0 .. MaxFragment
          /\ base + output_index + read_length
               = base + ChunkLength + (read_length - space)
    BY <1>2, <1>4, <1>6, CircleIsLong
  <2>2. received = Byte(base + output_index + read_length)
    BY <1>3 DEF FollowsFrom
  <2>. QED
    BY <1>1, <1>6, <1>7, <2>1, <2>2, CircleIsLong
<1>10. FollowsFrom(next)'
  BY <1>1, <1>6, <1>8, <1>9 DEF FollowsFrom
<1>11. SoundTypeOK' /\ SoundTypes'
  <2>1. late' = late /\ late \in BOOLEAN
    BY <1>1, <1>2 DEF SoundTypeOK
  <2>5. read_index \in Nat /\ read_index + read_length = Len(read_data)
    BY <1>2 DEF SoundTypeOK, SoundTypes
  <2>2. read_length - space \in 0 .. MaxFragment /\ read_index + space \in Nat
          /\ (read_index + space) + (read_length - space) = Len(read_data)
    BY <1>2, <1>4, <2>5, CircleIsLong
  <2>3. 0 \in 0 .. ChunkLength - 1
    BY CircleIsLong
  <2>4. task' \notin Finished
    BY <1>1 DEF Finished
  <2>. QED
    BY <1>1, <1>2, <1>5, <2>1, <2>2, <2>3, <2>4
       DEF SoundTypeOK, SoundTypes, connection, query
<1>12. chunk' = From(chunk'[1] - 1 + Circle, ChunkLength)
  BY <1>1, <1>5, ChunkIsFrom
<1>13. chunk # <<>> => chunk'[1] = Byte(chunk[ChunkLength] + 1)
  BY <1>1, <1>3, <1>5, CircleIsLong DEF FollowsFrom
<1>. QED
  BY <1>6, <1>10, <1>11, <1>12, <1>13 DEF SoundIInv, BytesFollow

LEMMA CopyAllStep ==
    ASSUME SoundIInv, CopyAll
    PROVE  /\ SoundIInv'
           /\ chunk' # chunk =>
                /\ chunk' = From(chunk'[1] - 1 + Circle, ChunkLength)
                /\ chunk # <<>> => chunk'[1] = Byte(chunk[ChunkLength] + 1)
<1>. DEFINE index == output_index + read_length
<1>1. /\ task = "read" /\ index <= ChunkLength
      /\ output_data' = Copied(read_length)
      /\ read_data' = <<>> /\ read_length' = 0 /\ read_index' = 0
      /\ UNCHANGED <<connection, query, received, late>>
  BY CircleIsLong DEF CopyAll, SoundIInv, SoundTypeOK, SoundTypes
<1>2. /\ SoundTypeOK /\ SoundTypes
      /\ output_index \in 0 .. ChunkLength - 1
      /\ read_length \in 0 .. MaxFragment
  BY DEF SoundIInv, SoundTypeOK, SoundTypes
<1>3. PICK base \in Bytes : FollowsFrom(base)
  BY DEF SoundIInv, BytesFollow
<1>4. index \in 0 .. ChunkLength /\ base \in 0 .. Circle - 1
  BY <1>1, <1>2, CircleIsLong
<1>5. /\ output_data' \in [1 .. ChunkLength -> Bytes]
      /\ \A i \in 1 .. index : output_data'[i] = Byte(base + i)
  BY <1>1, <1>2, <1>3, <1>4, CopyFollows
<1>6. received = Byte(base + index)
  BY <1>2, <1>3, <1>4 DEF FollowsFrom
<1>7. late' \in BOOLEAN /\ 0 \in 0 .. ChunkLength - 1
        /\ 0 \in 0 .. MaxFragment /\ Len(read_data') = 0
        /\ read_data' \in Seq(Bytes)
  BY <1>1, <1>2, CircleIsLong DEF SoundTypeOK
<1>8. CASE index = ChunkLength
  <2>. DEFINE next == Byte(base + ChunkLength)
  <2>1. output_index' = 0 /\ chunk' = output_data' /\ task' = "between"
          /\ at_loop' = at_loop
    BY <1>8 DEF CopyAll, Returns
  <2>2. next \in Bytes /\ chunk'[ChunkLength] = next /\ next \in Nat
    BY <1>4, <1>5, <1>8, <2>1, CircleIsLong, ByteIsByte
  <2>3. received' = Byte(next + 0 + 0)
    <3>1. Byte(next + 0) = Byte(base + ChunkLength + 0)
      BY <1>4, CircleIsLong, ByteOfSum
    <3>. QED
      BY <1>1, <1>4, <1>6, <1>8, <2>2, <3>1, CircleIsLong
  <2>4. FollowsFrom(next)'
    BY <1>1, <2>1, <2>2, <2>3 DEF FollowsFrom
  <2>5. SoundTypeOK' /\ SoundTypes'
    BY <1>1, <1>2, <1>5, <1>7, <2>1
       DEF SoundTypeOK, SoundTypes, connection, query, Finished
  <2>6. chunk' = From(chunk'[1] - 1 + Circle, ChunkLength)
    BY <1>5, <1>8, <2>1, ChunkIsFrom
  <2>7. chunk # <<>> => chunk'[1] = Byte(chunk[ChunkLength] + 1)
    BY <1>3, <1>5, <1>8, <2>1, CircleIsLong DEF FollowsFrom
  <2>. QED
    BY <2>2, <2>4, <2>5, <2>6, <2>7 DEF SoundIInv, BytesFollow
<1>9. CASE index # ChunkLength
  <2>1. output_index' = index /\ chunk' = chunk /\ task' = task
          /\ at_loop' = "turn"
    BY <1>9 DEF CopyAll
  <2>2. index \in 0 .. ChunkLength - 1
    BY <1>4, <1>9, CircleIsLong
  <2>3. FollowsFrom(base)'
    <3>1. base + index + 0 = base + index
      BY <1>4, CircleIsLong
    <3>. QED
      BY <1>1, <1>3, <1>5, <1>6, <2>1, <3>1 DEF FollowsFrom
  <2>4. SoundTypeOK' /\ SoundTypes'
    BY <1>1, <1>2, <1>5, <1>7, <2>1, <2>2
       DEF SoundTypeOK, SoundTypes, connection, query, Finished
  <2>. QED
    BY <2>1, <2>3, <2>4 DEF SoundIInv, BytesFollow
<1>. QED
  BY <1>8, <1>9

(* A fragment that arrives follows the byte received last.                 *)
LEMMA PeekStep ==
    ASSUME SoundIInv, Peek PROVE SoundIInv' /\ chunk' = chunk
<1>1. /\ task = "read" /\ at_loop = "turn"
      /\ UNCHANGED <<output, late>>
  BY DEF Peek
<1>2. /\ SoundTypeOK /\ SoundTypes
      /\ output_index \in 0 .. ChunkLength - 1
      /\ read_length \in 0 .. MaxFragment
      /\ late \in BOOLEAN
  BY DEF SoundIInv, SoundTypeOK, SoundTypes
<1>3. PICK base \in Bytes : FollowsFrom(base)
  BY DEF SoundIInv, BytesFollow
<1>4. CASE /\ UNCHANGED fragment
           /\ \/ Fails /\ Returns
              \/ /\ UNCHANGED <<task, connection, query>>
                 /\ at_loop' \in {"copy", at_loop}
  <2>1. FollowsFrom(base)'
    BY <1>1, <1>3, <1>4 DEF FollowsFrom, fragment, output
  <2>2. SoundTypeOK' /\ SoundTypes'
    BY <1>1, <1>2, <1>4
       DEF SoundTypeOK, SoundTypes, fragment, output, connection, query, Fails,
           Returns, Finished
  <2>. QED
    BY <1>1, <2>1, <2>2 DEF SoundIInv, BytesFollow, output
<1>5. CASE /\ read_data = <<>>
           /\ \E n \in 1 .. MaxFragment :
                /\ read_data' = From(received, n)
                /\ read_length' = n
                /\ received' = Byte(received + n)
                /\ at_loop' = "copy"
                /\ UNCHANGED <<task, connection, query, read_index>>
  <2>1. PICK n \in 1 .. MaxFragment :
                /\ read_data' = From(received, n)
                /\ read_length' = n
                /\ received' = Byte(received + n)
                /\ at_loop' = "copy"
                /\ UNCHANGED <<task, connection, query, read_index>>
    BY <1>5
  <2>2. read_index = 0 /\ read_length = 0
    <3>1. Len(read_data) = 0 /\ read_index \in Nat
            /\ read_index + read_length = Len(read_data)
      BY <1>2, <1>5 DEF SoundTypeOK, SoundTypes
    <3>. QED
      BY <1>2, <3>1
  <2>3. received = Byte(base + output_index) /\ base \in 0 .. Circle - 1
          /\ received \in Bytes
    <3>1. /\ base \in 0 .. Circle - 1
          /\ base + output_index + 0 = base + output_index
      BY <1>2, CircleIsLong
    <3>. QED
      BY <1>2, <1>3, <2>2, <3>1 DEF FollowsFrom, SoundTypeOK
  <2>4. \A j \in 1 .. n : Byte(received + j) = Byte(base + output_index + j)
    <3>. SUFFICES ASSUME NEW j \in 1 .. n
                  PROVE  Byte(received + j) = Byte(base + output_index + j)
      OBVIOUS
    <3>1. base + output_index \in Nat /\ j \in Nat
            /\ base + output_index + j < 2 * Circle
      BY <1>2, <2>3, CircleIsLong
    <3>. QED
      BY <2>3, <3>1, ByteOfSum
  <2>5. /\ read_data' \in Seq(Bytes) /\ Len(read_data') = n
        /\ \A j \in 1 .. n : read_data'[j] = Byte(received + j)
    <3>1. \A j \in 1 .. n : Byte(received + j) \in Bytes
      BY <2>3, CircleIsLong, ByteIsByte
    <3>2. read_data' = [j \in 1 .. n |-> Byte(received + j)] /\ n \in Nat
      BY <2>1, CircleIsLong DEF From
    <3>. QED
      BY <3>1, <3>2
  <2>6. FollowsFrom(base)'
    <3>1. /\ base' = base /\ output_index' = output_index
          /\ output_data' = output_data /\ chunk' = chunk
      BY <1>1 DEF output
    <3>2. \A j \in 1 .. read_length' : read_data'[read_index' + j]
                                         = Byte(base + output_index + j)
      BY <2>1, <2>2, <2>4, <2>5
    <3>3. received' = Byte(base + output_index + read_length')
      BY <2>1, <2>4
    <3>. QED
      BY <1>3, <3>1, <3>2, <3>3 DEF FollowsFrom
  <2>7. SoundTypeOK' /\ SoundTypes'
    <3>1. received' \in Bytes /\ n \in 0 .. MaxFragment
            /\ read_index' + read_length' = Len(read_data')
      BY <2>1, <2>2, <2>3, <2>5, CircleIsLong, ByteIsByte
    <3>. QED
      BY <1>1, <1>2, <2>1, <2>5, <3>1
         DEF SoundTypeOK, SoundTypes, connection, query, output, Finished
  <2>. QED
    BY <1>1, <2>6, <2>7 DEF SoundIInv, BytesFollow, output
<1>. QED
  BY <1>4, <1>5 DEF Peek, fragment, Returns

(* Everything else leaves fragment and chunk alone.                        *)
LEMMA LoopStep ==
    ASSUME SoundIInv,
           \/ ConnectQuery \/ QueryTurn \/ QueryDone \/ ConnectDevice
           \/ DeviceTurn \/ ReadChunk \/ ReadTimesOut \/ Iterate \/ Elapsed
           \/ CloseDevice \/ UNCHANGED soundVars
    PROVE  SoundIInv' /\ chunk' = chunk
<1>1. UNCHANGED <<fragment, output>>
  BY DEF ConnectQuery, QueryTurn, QueryDone, ConnectDevice, DeviceTurn,
         ReadChunk, ReadTimesOut, Iterate, Elapsed, CloseDevice, soundVars
<1>2. BytesFollow'
  BY <1>1 DEF SoundIInv, BytesFollow, FollowsFrom, fragment, output
<1>3. late' \in BOOLEAN
  BY DEF SoundIInv, SoundTypeOK, ConnectQuery, QueryTurn, QueryDone,
         ConnectDevice, DeviceTurn, ReadChunk, ReadTimesOut, Iterate, Elapsed,
         CloseDevice, soundVars
<1>. USE <1>1, <1>2, <1>3 DEF SoundIInv, SoundTypeOK, SoundTypes, fragment,
                        output, connection, query, Queries, Finished
<1>4. CASE ConnectQuery \/ QueryTurn \/ QueryDone
  BY <1>4 DEF ConnectQuery, QueryTurn, QueryDone
<1>5. CASE ConnectDevice \/ DeviceTurn \/ CloseDevice
  BY <1>5 DEF ConnectDevice, DeviceTurn, CloseDevice, DeviceFreed
<1>6. CASE ReadChunk \/ ReadTimesOut \/ Elapsed
  BY <1>6 DEF ReadChunk, ReadTimesOut, Elapsed, Returns
<1>7. CASE Iterate
  BY <1>7, SoundAssumption DEF Iterate, PulseEvent, Fails
<1>8. CASE UNCHANGED soundVars
  BY <1>8 DEF soundVars
<1>. QED
  BY <1>2, <1>4, <1>5, <1>6, <1>7, <1>8

LEMMA SoundStepInvariant ==
    ASSUME SoundIInv, [SoundNext]_soundVars
    PROVE  /\ SoundIInv'
           /\ chunk' # chunk =>
                /\ chunk' = From(chunk'[1] - 1 + Circle, ChunkLength)
                /\ chunk # <<>> => chunk'[1] = Byte(chunk[ChunkLength] + 1)
BY CopyPartStep, CopyAllStep, PeekStep, LoopStep DEF SoundNext, SoundStep

LEMMA SoundInvariant == SoundSpec => []SoundIInv
<1>. QED
  BY SoundInitInvariant, SoundStepInvariant, PTL DEF SoundSpec

(* The chunk is never overfilled, and the fragment read from is the one    *)
(* received (sound.cpp).                                                   *)
THEOREM SoundTypeCorrect == SoundSpec => []SoundTypeOK
<1>1. SoundIInv => SoundTypeOK
  BY DEF SoundIInv
<1>. QED
  BY <1>1, SoundInvariant, PTL

(* What comes out as chunks is the stream of bytes that came in as         *)
(* fragments, in order, none missing and none twice, whatever the sizes of *)
(* both (pa_sound_device_read).                                            *)
THEOREM SoundChunksAreTheStream == SoundSpec => ChunksAreTheStream
<1>1. SoundIInv /\ [SoundNext]_soundVars =>
        [chunk' # chunk =>
            /\ chunk' = From(chunk'[1] - 1 + Circle, ChunkLength)
            /\ chunk # <<>> => chunk'[1] = Byte(chunk[ChunkLength] + 1)]_chunk
  BY SoundStepInvariant
<1>. QED
  BY <1>1, SoundInvariant, PTL DEF SoundSpec, ChunksAreTheStream

-----------------------------------------------------------------------------
(* Overclocking.                                                           *)

(* What the driver has.                                                    *)
GpuTypes ==
    /\ \E n \in 0 .. MaxLevels :
          rates \in [1 .. n -> 0 .. MaxRate] /\ settable \subseteq 0 .. n
    /\ limit \in 0 .. MaxRate /\ own \in 0 .. 1 /\ asked \in BOOLEAN

(* A raise that lifts no level but a best one that has no equal above the  *)
(* best: CUDA keeps the GPU below that one.                                *)
Bearable(value) ==
    \A l \in Levels : (\E best \in Levels \ {l} : rates[best] = Best) =>
                          rates[l] + value <= Best

Lifted == {l \in Levels : offset[l] \notin {0, own}}
Known ==
    /\ num_performance_levels > 1
    /\ num_performance_levels \in Levels
    /\ \A l \in Levels : l <= num_performance_levels

(* Levels are lifted only while there is a CUDA context and the encoder's  *)
(* stop is still to come, by requests that are granted once more then.     *)
LiftsAreBearable ==
    /\ \A l \in Lifted : Bearable(offset[l])
                             /\ settable \cap {AllLevels, l} # {}
    /\ Lifted # {} /\ at # "exited" => Known /\ cu_ctx /\ xnvctrl
    /\ at \in {"cuda", "xnvctrl", "levels", "unload", "done"} => Lifted = {}
    /\ at = "raise" => Known /\ Bearable(request.offset)

(* The stop has given back what it has asked for so far.                   *)
GivenBack ==
    at = "restore" =>
        /\ request.offset = 0
        /\ Lifted # {} /\ request.to > 0 => AllLevels \notin settable
        /\ \A l \in Lifted : l < request.to => l \notin settable

(* What is open when.                                                      *)
OpenTogether ==
    /\ xnvctrl /\ at # "exited" => cu_ctx
    /\ at \in {"xnvctrl", "levels", "raise", "context", "textures", "running"}
          => cu_ctx
    /\ at \in {"levels", "raise", "restore"} => xnvctrl
    /\ at = "done" => ~cu_ctx
    /\ at \in {"cuda", "xnvctrl"} => ~xnvctrl
    /\ request.to <= num_performance_levels

OverclockIInv ==
    /\ GpuTypes
    /\ OverclockTypeOK
    /\ LiftsAreBearable
    /\ GivenBack
    /\ OpenTogether
    /\ at \in {"cuda", "xnvctrl", "levels"} => request.to = 0

LEMMA SmallestExists ==
    ASSUME NEW T \in SUBSET Nat, T # {}
    PROVE  \E x \in T : \A y \in T : x <= y
<1>. DEFINE R == OpToRel(<, Nat)
<1>1. IsWellFoundedOn(R, Nat)
  BY NatLessThanWellFounded
<1>. HIDE DEF R
<1>2. PICK x \in T : \A y \in T : <<y, x>> \notin R
  BY <1>1, WFMin
<1>3. \A y \in T : y < x => <<y, x>> \in R
  BY DEF R, OpToRel
<1>4. x \in Nat /\ \A y \in T : y \in Nat
  OBVIOUS
<1>5. \A y \in T : ~(y < x)
  BY <1>2, <1>3
<1>6. \A y \in T : x <= y
  BY <1>4, <1>5
<1>. QED
  BY <1>6

LEMMA LargestExists ==
    ASSUME NEW S \in SUBSET Nat, S # {}, NEW b \in Nat, \A x \in S : x <= b
    PROVE  /\ Max(S) \in S
           /\ \A y \in S : y <= Max(S)
<1>. DEFINE T == {b - x : x \in S}
<1>1. T \in SUBSET Nat /\ T # {}
  <2>1. \A x \in S : b - x \in Nat
    OBVIOUS
  <2>2. PICK x \in S : TRUE
    OBVIOUS
  <2>3. b - x \in T
    BY <2>2
  <2>. QED
    BY <2>1, <2>3
<1>2. PICK m \in T : \A y \in T : m <= y
  BY <1>1, SmallestExists
<1>3. PICK x \in S : m = b - x
  BY <1>2
<1>4. \A y \in S : x >= y
  BY <1>2, <1>3
<1>5. \E z \in S : \A y \in S : z >= y
  BY <1>4
<1>6. Max(S) \in S /\ \A y \in S : Max(S) >= y
  BY <1>5, Zenon DEF Max
<1>. QED
  BY <1>6
LEMMA LeastExists ==
    ASSUME NEW S \in SUBSET Nat, S # {}
    PROVE  Min(S) \in S /\ \A y \in S : Min(S) <= y
<1>1. \E x \in S : \A y \in S : x <= y
  BY SmallestExists
<1>. QED
  BY <1>1, Zenon DEF Min

(* The best rate, and the number of levels.                                *)
LEMMA BestRate ==
    ASSUME GpuTypes
    PROVE  /\ Best \in 0 .. MaxRate
           /\ \A l \in Levels : rates[l] \in 0 .. MaxRate /\ rates[l] <= Best
           /\ Levels # {} => \E l \in Levels : rates[l] = Best
<1>. DEFINE S == {0} \cup {rates[l] : l \in Levels}
<1>1. \A l \in Levels : rates[l] \in 0 .. MaxRate
  BY DEF GpuTypes, Levels
<1>2. /\ S \in SUBSET Nat /\ S # {} /\ MaxRate \in Nat
      /\ \A x \in S : x <= MaxRate
  BY <1>1, OverclockAssumption
<1>3. Max(S) \in S /\ \A y \in S : y <= Max(S)
  BY <1>2, LargestExists
<1>4. Best = Max(S)
  BY DEF Best
<1>. HIDE DEF S
<1>5. \A l \in Levels : rates[l] \in S
  BY DEF S
<1>6. Best \in 0 .. MaxRate /\ \A l \in Levels : rates[l] <= Best
  <2>1. Best \in S /\ \A y \in S : y <= Best
    BY <1>3, <1>4, Zenon
  <2>2. Best \in Nat /\ Best <= MaxRate
    BY <1>2, <2>1
  <2>3. \A l \in Levels : rates[l] <= Best
    BY <1>5, <2>1, Zenon
  <2>. QED
    BY <1>2, <2>2, <2>3
<1>7. ASSUME Levels # {} PROVE \E l \in Levels : rates[l] = Best
  <2>1. CASE Best = 0
    BY <1>1, <1>6, <1>7, <2>1
  <2>2. CASE Best # 0
    BY <1>3, <1>4, <2>2 DEF S
  <2>. QED
    BY <2>1, <2>2
<1>. QED
  BY <1>1, <1>6, <1>7

LEMMA NumberOfLevels ==
    ASSUME GpuTypes
    PROVE  \E n \in 0 .. MaxLevels :
              /\ Levels = 1 .. n /\ settable \subseteq 0 .. n
              /\ Max({0} \cup Levels) = n
              /\ Levels # {} => Max(Levels) = n
<1>1. PICK n \in 0 .. MaxLevels : Levels = 1 .. n /\ settable \subseteq 0 .. n
  BY DEF GpuTypes, Levels
<1>2. n \in Nat /\ 1 .. n \in SUBSET Nat /\ {0} \cup (1 .. n) \in SUBSET Nat
  BY <1>1, OverclockAssumption
<1>3. Max({0} \cup (1 .. n)) = n
  <2>. DEFINE M == Max({0} \cup (1 .. n))
  <2>1. M \in {0} \cup (1 .. n) /\ \A y \in {0} \cup (1 .. n) : y <= M
    <3>1. \A y \in {0} \cup (1 .. n) : y <= n
      BY <1>2
    <3>. QED
      BY <1>2, <3>1, LargestExists
  <2>. HIDE DEF M
  <2>2. M = n
    BY <1>2, <2>1
  <2>. QED
    BY <2>2 DEF M
<1>4. n # 0 => Max(1 .. n) = n
  <2>. DEFINE M == Max(1 .. n)
  <2>. SUFFICES ASSUME n # 0 PROVE M = n
    OBVIOUS
  <2>1. M \in 1 .. n /\ \A y \in 1 .. n : y <= M
    <3>1. 1 .. n # {} /\ \A y \in 1 .. n : y <= n
      BY <1>2
    <3>. QED
      BY <1>2, <3>1, LargestExists
  <2>. HIDE DEF M
  <2>. QED
    BY <1>2, <2>1
<1>5. Levels # {} => n # 0
  BY <1>1
<1>. QED
  BY <1>1, <1>3, <1>4, <1>5

(* TransferRateMaxDiff, and the less the driver may allow, is bearable.    *)
LEMMA DiffIsBearable ==
    ASSUME GpuTypes, NEW p \in Levels, NEW q \in Levels, p # q
    PROVE  /\ Min({limit, TransferRateMaxDiff}) \in 0 .. MaxRate
           /\ Bearable(Min({limit, TransferRateMaxDiff}))
<1>. DEFINE top == CHOOSE l \in Levels : rates[l] = Best
            others == {rates[l] : l \in Levels \ {top}}
            value == Min({limit, TransferRateMaxDiff})
<1>1. /\ Best \in 0 .. MaxRate
      /\ \A l \in Levels : rates[l] \in 0 .. MaxRate /\ rates[l] <= Best
  BY BestRate
<1>2. top \in Levels /\ rates[top] = Best
  BY BestRate, Zenon
<1>3. TransferRateMaxDiff = Best - Max(others)
  BY DEF TransferRateMaxDiff
<1>. HIDE DEF top
<1>4. others \in SUBSET Nat /\ others # {} /\ MaxRate \in Nat
        /\ \A x \in others : x <= MaxRate
  BY <1>1, OverclockAssumption
<1>5. Max(others) \in others /\ \A x \in others : x <= Max(others)
  BY <1>4, LargestExists
<1>6. Max(others) \in 0 .. Best
  BY <1>1, <1>5
<1>7. \A l \in Levels : (\E best \in Levels \ {l} : rates[best] = Best) =>
                            rates[l] <= Max(others)
  <2>. SUFFICES ASSUME NEW l \in Levels, NEW best \in Levels \ {l},
                       rates[best] = Best
                PROVE  rates[l] <= Max(others)
    OBVIOUS
  <2>1. CASE l # top
    BY <1>5, <2>1
  <2>2. CASE l = top
    <3>1. rates[best] \in others
      BY <2>2
    <3>2. Best <= Max(others)
      BY <1>5, <3>1
    <3>. QED
      BY <1>1, <1>6, <3>2
  <2>. QED
    BY <2>1, <2>2
<1>. HIDE DEF others
<1>8. TransferRateMaxDiff \in 0 .. MaxRate
  BY <1>1, <1>3, <1>6, OverclockAssumption
<1>9. value \in {limit, TransferRateMaxDiff} /\ value <= TransferRateMaxDiff
  <2>1. {limit, TransferRateMaxDiff} \in SUBSET Nat
    BY <1>8 DEF GpuTypes
  <2>2. /\ value \in {limit, TransferRateMaxDiff}
        /\ \A y \in {limit, TransferRateMaxDiff} : value <= y
    BY <2>1, LeastExists
  <2>. QED
    BY <2>2
<1>. HIDE DEF value
<1>10. value \in 0 .. MaxRate
  BY <1>8, <1>9 DEF GpuTypes
<1>11. Bearable(value)
  BY <1>1, <1>3, <1>6, <1>7, <1>9, <1>10, OverclockAssumption DEF Bearable
<1>. QED
  BY <1>10, <1>11 DEF value

LEMMA OverclockInitInvariant == OverclockInit => OverclockIInv
<1>. SUFFICES ASSUME OverclockInit PROVE OverclockIInv
  OBVIOUS
<1>. USE OverclockAssumption
<1>1. GpuTypes
  BY DEF OverclockInit, GpuTypes, AllLevels
<1>2. Lifted = {}
  BY DEF OverclockInit, Lifted
<1>3. offset \in [Levels -> 0 .. MaxRate + 1]
  BY DEF OverclockInit
<1>4. OverclockTypeOK
  <2>1. {cu_ctx, xnvctrl} \subseteq BOOLEAN
    BY Zenon DEF OverclockInit
  <2>2. request \in [to : 0 .. MaxLevels, offset : 0 .. MaxRate]
    BY DEF OverclockInit, AllLevels
  <2>. QED
    BY <1>3, <2>1, <2>2 DEF OverclockInit, OverclockTypeOK
<1>. QED
  BY <1>1, <1>2, <1>4
     DEF OverclockInit, OverclockIInv, LiftsAreBearable, GivenBack,
         OpenTogether, AllLevels

LEMMA RequestStep ==
    ASSUME OverclockIInv, SendRequest PROVE OverclockIInv'
<1>. USE OverclockAssumption
<1>1. /\ at \in {"raise", "restore"}
      /\ offset' = [l \in Levels |->
                      IF request.to \in settable \cap {AllLevels, l}
                      THEN request.offset ELSE offset[l]]
      /\ UNCHANGED <<gpu, cu_ctx, xnvctrl, num_performance_levels>>
  BY DEF SendRequest
<1>2. \/ /\ request.to < num_performance_levels
         /\ request' = [request EXCEPT !.to = @ + 1] /\ at' = at
      \/ /\ ~(request.to < num_performance_levels)
         /\ at' = IF at = "raise" THEN "context" ELSE "unload"
         /\ request' = request
  BY DEF SendRequest
<1>3. GpuTypes /\ GpuTypes' /\ Levels' = Levels /\ Best' = Best
  BY <1>1 DEF OverclockIInv, GpuTypes, gpu, Levels, Best
<1>4. request \in [to : 0 .. MaxLevels, offset : 0 .. MaxRate]
        /\ request.to <= num_performance_levels
        /\ num_performance_levels \in 0 .. MaxLevels
        /\ offset \in [Levels -> 0 .. MaxRate + 1]
  <2>1. PICK n \in 0 .. MaxLevels : Max({0} \cup Levels) = n
    BY <1>3, NumberOfLevels
  <2>. QED
    BY <2>1 DEF OverclockIInv, OverclockTypeOK, OpenTogether
<1>5. request' \in [to : 0 .. MaxLevels, offset : 0 .. MaxRate]
        /\ request'.to <= num_performance_levels
        /\ request'.offset = request.offset
        /\ (at' = at => request'.to = request.to + 1)
  BY <1>1, <1>2, <1>4
<1>6. offset' \in [Levels -> 0 .. MaxRate + 1]
  BY <1>1, <1>4
<1>7. \A l \in Levels :
         offset'[l] = IF request.to \in settable \cap {AllLevels, l}
                      THEN request.offset ELSE offset[l]
  BY <1>1
<1>8. OverclockTypeOK'
  BY <1>1, <1>2, <1>3, <1>5, <1>6 DEF OverclockIInv, OverclockTypeOK
<1>9. \A v : Bearable(v)' <=> Bearable(v)
  BY <1>1, <1>3 DEF Bearable, gpu
<1>10. own' = own /\ settable' = settable /\ (Known' <=> Known)
  BY <1>1, <1>3 DEF gpu, Known
<1>11. Lifted' = {l \in Levels : offset'[l] \notin {0, own}}
  BY <1>3, <1>10 DEF Lifted
<1>12. CASE at = "raise"
  <2>1. Known /\ Bearable(request.offset) /\ cu_ctx /\ xnvctrl
    BY <1>12 DEF OverclockIInv, LiftsAreBearable, OpenTogether
  <2>2. \A l \in Lifted' :
           Bearable(offset'[l]) /\ settable \cap {AllLevels, l} # {}
    BY <1>7, <1>11, <2>1 DEF OverclockIInv, LiftsAreBearable, Lifted
  <2>3. at' \in {"raise", "context"}
    BY <1>2, <1>12
  <2>4. LiftsAreBearable'
    BY <1>1, <1>5, <1>9, <1>10, <2>1, <2>2, <2>3 DEF LiftsAreBearable
  <2>. QED
    BY <1>1, <1>3, <1>5, <1>8, <2>1, <2>3, <2>4
       DEF OverclockIInv, GivenBack, OpenTogether
<1>13. CASE at = "restore"
  <2>1. /\ request.offset = 0
        /\ Lifted # {} /\ request.to > 0 => AllLevels \notin settable
        /\ \A l \in Lifted : l < request.to => l \notin settable
    BY <1>13 DEF OverclockIInv, GivenBack
  <2>2. \A l \in Lifted' : /\ l \in Lifted /\ offset'[l] = offset[l]
                           /\ request.to \notin settable \cap {AllLevels, l}
    BY <1>7, <1>11, <2>1 DEF Lifted
  <2>3. \A l \in Lifted' :
           Bearable(offset'[l]) /\ settable \cap {AllLevels, l} # {}
    BY <2>2 DEF OverclockIInv, LiftsAreBearable
  <2>4. \A l \in Lifted' : /\ AllLevels \notin settable
                           /\ l <= request.to => l \notin settable
    <3>. SUFFICES ASSUME NEW l \in Lifted'
                  PROVE  /\ AllLevels \notin settable
                         /\ l <= request.to => l \notin settable
      OBVIOUS
    <3>1. l \in Lifted /\ request.to \notin settable \cap {AllLevels, l}
            /\ l \in Nat
      BY <1>3, <2>2, NumberOfLevels DEF Lifted
    <3>. QED
      BY <1>4, <2>1, <3>1 DEF AllLevels
  <2>5. Lifted' # {} => Known /\ cu_ctx /\ xnvctrl
    BY <1>13, <2>2 DEF OverclockIInv, LiftsAreBearable
  <2>6. at' = "unload" => Lifted' = {}
    <3>. SUFFICES ASSUME at' = "unload", NEW l \in Lifted' PROVE FALSE
      OBVIOUS
    <3>1. request.to = num_performance_levels
      BY <1>2, <1>4, <1>13
    <3>2. l <= num_performance_levels /\ l \in Levels
      BY <2>5, <1>11 DEF Known
    <3>3. l <= request.to
      BY <3>1, <3>2
    <3>4. AllLevels \notin settable /\ l \notin settable
      BY <2>4, <3>3, Zenon
    <3>5. settable \cap {AllLevels, l} # {}
      BY <2>3, Zenon
    <3>. QED
      BY <3>4, <3>5
  <2>7. at' \in {"restore", "unload"} /\ xnvctrl
    BY <1>2, <1>13 DEF OverclockIInv, OpenTogether
  <2>8. LiftsAreBearable'
    BY <1>1, <1>9, <1>10, <2>3, <2>5, <2>6, <2>7 DEF LiftsAreBearable
  <2>9. GivenBack'
    <3>. SUFFICES ASSUME at' = "restore" PROVE GivenBack'
      BY DEF GivenBack
    <3>1. request'.to = request.to + 1 /\ request'.offset = 0
      BY <1>5, <1>13, <2>1
    <3>2. \A l \in Lifted' : l \in Nat
      BY <1>3, <1>11, NumberOfLevels
    <3>3. \A l \in Lifted' : l < request.to + 1 => l <= request.to
      BY <1>4, <3>2
    <3>4. ASSUME NEW l \in Lifted', l < request'.to PROVE l \notin settable'
      <4>1. l < request.to + 1
        BY <3>1, <3>4
      <4>2. l <= request.to
        BY <3>3, <4>1, Zenon
      <4>3. l \notin settable
        BY <2>4, <4>2, Zenon
      <4>. QED
        BY <1>10, <4>3, Zenon
    <3>5. Lifted' # {} => AllLevels \notin settable'
      BY <1>10, <2>4, Zenon
    <3>. QED
      BY <3>1, <3>4, <3>5 DEF GivenBack, AllLevels
  <2>. QED
    BY <1>1, <1>3, <1>5, <1>8, <1>13, <2>7, <2>8, <2>9
       DEF OverclockIInv, OpenTogether
<1>. QED
  BY <1>1, <1>12, <1>13

(* Steps that leave the offsets alone.                                     *)
LEMMA EncoderStep ==
    ASSUME OverclockIInv,
           \/ LoadCuda \/ LoadXnvctrl \/ OverclockStart \/ SetUpEncoder
           \/ DestroyEncoder \/ StopEncoder \/ UnloadCuda \/ ExitProcess
           \/ UNCHANGED overclockVars
    PROVE  OverclockIInv'
<1>. USE OverclockAssumption
<1>1. UNCHANGED <<gpu, offset>>
  BY DEF LoadCuda, LoadXnvctrl, OverclockStart, SetUpEncoder, DestroyEncoder,
         StopEncoder, UnloadCuda, ExitProcess, overclockVars
<1>2. GpuTypes /\ GpuTypes' /\ Levels' = Levels /\ Best' = Best
        /\ Lifted' = Lifted /\ settable' = settable
  BY <1>1 DEF OverclockIInv, GpuTypes, gpu, Levels, Best, Lifted
<1>3. \A v : Bearable(v)' <=> Bearable(v)
  BY <1>1, <1>2 DEF Bearable, gpu
<1>10. {cu_ctx', xnvctrl'} \subseteq BOOLEAN
  <2>1. cu_ctx \in BOOLEAN /\ xnvctrl \in BOOLEAN
    BY DEF OverclockIInv, OverclockTypeOK
  <2>2. cu_ctx' \in BOOLEAN \/ cu_ctx' = cu_ctx
    BY DEF LoadCuda, LoadXnvctrl, OverclockStart, SetUpEncoder, DestroyEncoder,
           StopEncoder, UnloadCuda, ExitProcess, overclockVars
  <2>3. xnvctrl' \in BOOLEAN \/ xnvctrl' = xnvctrl
    BY DEF LoadCuda, LoadXnvctrl, OverclockStart, SetUpEncoder, DestroyEncoder,
           StopEncoder, UnloadCuda, ExitProcess, overclockVars
  <2>. QED
    BY <2>1, <2>2, <2>3, Zenon
<1>11. PICK n \in 0 .. MaxLevels :
          /\ Levels = 1 .. n /\ Max({0} \cup Levels) = n
          /\ Levels # {} => Max(Levels) = n
  BY <1>2, NumberOfLevels
<1>12. request \in [to : 0 .. MaxLevels, offset : 0 .. MaxRate]
         /\ num_performance_levels \in {0, n}
  BY <1>11 DEF OverclockIInv, OverclockTypeOK
<1>. USE <1>1, <1>2, <1>3, <1>10, <1>11, <1>12
<1>13. CASE LoadCuda
  <2>1. /\ at = "cuda" /\ at' \in {"stop", "xnvctrl", "context"}
        /\ at' # "stop" => cu_ctx'
        /\ UNCHANGED <<xnvctrl, num_performance_levels, request>>
    BY <1>13 DEF LoadCuda
  <2>. QED
    BY <2>1
       DEF OverclockIInv, OverclockTypeOK, LiftsAreBearable, GivenBack,
           OpenTogether, Known
<1>4. CASE LoadXnvctrl
  <2>1. /\ at = "xnvctrl" /\ at' \in {"levels", "context"}
        /\ at' = "levels" => xnvctrl'
        /\ UNCHANGED <<cu_ctx, num_performance_levels, request>>
    BY <1>4 DEF LoadXnvctrl
  <2>. QED
    BY <2>1
       DEF OverclockIInv, OverclockTypeOK, LiftsAreBearable, GivenBack,
           OpenTogether, Known
<1>5. CASE OverclockStart
  <2>1. CASE at' = "context" /\ UNCHANGED <<num_performance_levels, request>>
    BY <1>5, <2>1
       DEF OverclockStart, OverclockIInv, OverclockTypeOK,
           LiftsAreBearable, GivenBack, OpenTogether, Known
  <2>2. CASE Levels # {} /\ num_performance_levels' = n
    <3>1. CASE at' = "context" /\ request' = request
      BY <1>5, <2>2, <3>1
         DEF OverclockStart, OverclockIInv, OverclockTypeOK,
             LiftsAreBearable, GivenBack, OpenTogether, Known
    <3>2. CASE /\ n > 1 /\ at' = "raise"
               /\ Requests(Min({limit, TransferRateMaxDiff}))
      <4>. DEFINE value == Min({limit, TransferRateMaxDiff})
      <4>1. 1 \in Levels /\ 2 \in Levels
        BY <2>2, <3>2
      <4>2. value \in 0 .. MaxRate /\ Bearable(value)
        <5>1. 1 # 2
          OBVIOUS
        <5>. QED
          BY <4>1, <5>1, DiffIsBearable, Zenon
      <4>. HIDE DEF value
      <4>3. request' = [to |-> 0, offset |-> value]
        BY <3>2 DEF Requests, AllLevels, value
      <4>4. request' \in [to : 0 .. MaxLevels, offset : 0 .. MaxRate]
              /\ request'.to = 0 /\ request'.offset = value
        BY <4>2, <4>3
      <4>5. Known' /\ Lifted = {}
        BY <1>5, <2>2, <3>2
           DEF Known, OverclockStart, OverclockIInv, LiftsAreBearable
      <4>6. LiftsAreBearable'
        BY <3>2, <4>2, <4>4, <4>5 DEF LiftsAreBearable
      <4>. QED
        BY <1>5, <2>2, <3>2, <4>4, <4>6
           DEF OverclockStart, OverclockIInv, OverclockTypeOK, GivenBack,
               OpenTogether
    <3>. QED
      BY <1>5, <2>2, <3>1, <3>2 DEF OverclockStart
  <2>. QED
    BY <1>5, <2>1, <2>2 DEF OverclockStart
<1>6. CASE SetUpEncoder \/ DestroyEncoder
  BY <1>6
     DEF SetUpEncoder, DestroyEncoder, OverclockIInv, OverclockTypeOK,
         LiftsAreBearable, GivenBack, OpenTogether, Known
<1>7. CASE StopEncoder
  <2>1. /\ at = "stop" /\ UNCHANGED <<cu_ctx, xnvctrl, num_performance_levels>>
        /\ \/ xnvctrl /\ at' = "restore" /\ request' = [to |-> 0, offset |-> 0]
           \/ ~xnvctrl /\ at' = "unload" /\ request' = request
    BY <1>7 DEF StopEncoder, Requests, AllLevels
  <2>2. request' \in [to : 0 .. MaxLevels, offset : 0 .. MaxRate]
          /\ request'.to <= num_performance_levels
          /\ at' = "restore" => request'.to = 0 /\ request'.offset = 0
    BY <2>1 DEF OverclockIInv, OpenTogether
  <2>3. OverclockTypeOK' /\ LiftsAreBearable' /\ OpenTogether'
    BY <2>1, <2>2
       DEF OverclockIInv, OverclockTypeOK, LiftsAreBearable, OpenTogether,
           Known
  <2>4. GivenBack'
    <3>1. \A l \in Lifted : ~(l < 0)
      BY DEF Lifted
    <3>. QED
      BY <2>1, <2>2, <3>1 DEF GivenBack
  <2>. QED
    BY <2>1, <2>3, <2>4 DEF OverclockIInv
<1>8. CASE UnloadCuda \/ ExitProcess
  BY <1>8
     DEF UnloadCuda, ExitProcess, OverclockIInv, OverclockTypeOK,
         LiftsAreBearable, GivenBack, OpenTogether, Known
<1>9. CASE UNCHANGED overclockVars
  BY <1>9
     DEF overclockVars, OverclockIInv, OverclockTypeOK,
         LiftsAreBearable, GivenBack, OpenTogether, Known
<1>. QED
  BY <1>13, <1>4, <1>5, <1>6, <1>7, <1>8, <1>9

LEMMA OverclockStepInvariant ==
    OverclockIInv /\ [OverclockNext]_overclockVars => OverclockIInv'
BY RequestStep, EncoderStep DEF OverclockNext

LEMMA OverclockInvariant == OverclockSpec => []OverclockIInv
BY OverclockInitInvariant, OverclockStepInvariant, PTL DEF OverclockSpec

(* Requests name levels the driver has, and offsets stay within what its   *)
(* levels differ by (overclock.c).                                         *)
THEOREM OverclockTypeCorrect == OverclockSpec => []OverclockTypeOK
<1>1. OverclockIInv => OverclockTypeOK
  BY DEF OverclockIInv
<1>. QED
  BY <1>1, OverclockInvariant, PTL

(* A level that is lifted runs no faster than the best, and one that is    *)
(* not lifted has no offset but the owner's.                               *)
LEMMA LiftedIsBearable == OverclockIInv => NotOverclockedBeyondBest
<1>. SUFFICES ASSUME OverclockIInv, at # "exited"
              PROVE  NotOverclockedBeyondBest
  BY DEF NotOverclockedBeyondBest
<1>1. ASSUME NEW l \in Levels, RunsAt(l)
      PROVE  rates[l] + offset[l] <= Best + own
  <2>1. /\ rates[l] \in 0 .. MaxRate /\ rates[l] <= Best
        /\ Best \in 0 .. MaxRate /\ own \in 0 .. 1
        /\ offset[l] \in 0 .. MaxRate + 1
    BY BestRate DEF OverclockIInv, GpuTypes, OverclockTypeOK
  <2>2. CASE l \notin Lifted
    <3>1. offset[l] <= own
      BY <2>1, <2>2 DEF Lifted
    <3>. QED
      BY <2>1, <3>1, OverclockAssumption
  <2>3. CASE l \in Lifted
    <3>1. Known /\ cu_ctx /\ Bearable(offset[l])
      BY <2>3 DEF OverclockIInv, LiftsAreBearable
    <3>2. Levels # {l}
      <4>1. PICK n \in 0 .. MaxLevels : Levels = 1 .. n
        BY NumberOfLevels DEF OverclockIInv
      <4>2. 1 \in Levels /\ 2 \in Levels
        BY <3>1, <4>1 DEF Known
      <4>. QED
        BY <4>2
    <3>3. \E best \in Levels \ {l} : rates[best] = Best
      BY <1>1, <3>1, <3>2 DEF RunsAt
    <3>4. rates[l] + offset[l] <= Best
      BY <3>1, <3>3 DEF Bearable
    <3>. QED
      BY <2>1, <3>4, OverclockAssumption
  <2>. QED
    BY <2>2, <2>3
<1>2. at = "done" => \A l \in Levels : offset[l] \in {0, own}
  BY DEF OverclockIInv, LiftsAreBearable, Lifted
<1>. QED
  BY <1>1, <1>2 DEF NotOverclockedBeyondBest

(* A GPU that has a better level than the one CUDA keeps it at is never    *)
(* driven beyond its best level's clock, however many levels there are and *)
(* whichever of them can be set, and ends as it was (gsr_overclock_start,  *)
(* _stop).                                                                 *)
THEOREM OverclockIsBearable == OverclockSpec => []NotOverclockedBeyondBest
BY LiftedIsBearable, OverclockInvariant, PTL

-----------------------------------------------------------------------------
(* All parts together.                                                     *)

(* Every part's invariant, whichever part runs.                            *)
BackendsIInv ==
    /\ part \in Parts
    /\ KmsIInv /\ MonitorIInv /\ WindowIInv /\ NvfbcIInv /\ SessionIInv
    /\ VideoIInv /\ DamageIInv /\ SoundIInv /\ OverclockIInv /\ StartupIInv

LEMMA BackendsInitInvariant == Init => BackendsIInv
BY KmsInitInvariant, MonitorInitInvariant, WindowInitInvariant,
   NvfbcInitInvariant, SessionInitInvariant, VideoInitInvariant,
   DamageInitInvariant, SoundInitInvariant, OverclockInitInvariant,
   StartupInitInvariant, Zenon
   DEF Init, BackendsIInv

(* A step is of one part, and leaves the others alone.                     *)
LEMMA PartsStep ==
    ASSUME [Next]_backendVars
    PROVE  /\ part' = part
           /\ [KmsNext]_kmsVars /\ [MonitorNext]_monitorVars
           /\ [WindowNext]_windowVars /\ [NvfbcNext]_nvfbcVars
           /\ [SessionNext]_sessionVars /\ [VideoNext]_videoVars
           /\ [DamageNext]_damageVars /\ [SoundNext]_soundVars
           /\ [OverclockNext]_overclockVars /\ [StartupNext]_startupVars
BY DEF Next, backendVars

LEMMA BackendsStepInvariant ==
    ASSUME BackendsIInv, [Next]_backendVars PROVE BackendsIInv'
<1>1. /\ part' = part
      /\ [KmsNext]_kmsVars /\ [MonitorNext]_monitorVars
      /\ [WindowNext]_windowVars /\ [NvfbcNext]_nvfbcVars
      /\ [SessionNext]_sessionVars /\ [VideoNext]_videoVars
      /\ [DamageNext]_damageVars /\ [SoundNext]_soundVars
      /\ [OverclockNext]_overclockVars /\ [StartupNext]_startupVars
  BY PartsStep
<1>2. KmsIInv' /\ MonitorIInv' /\ WindowIInv' /\ NvfbcIInv' /\ SessionIInv'
  BY <1>1, KmsStepInvariant, MonitorStepInvariant, WindowStepInvariant,
     NvfbcStepInvariant, SessionStepInvariant, Zenon
     DEF BackendsIInv
<1>3. VideoIInv' /\ DamageIInv' /\ SoundIInv' /\ OverclockIInv' /\ StartupIInv'
  BY <1>1, VideoStepInvariant, DamageStepInvariant, SoundStepInvariant,
     OverclockStepInvariant, StartupStepInvariant, Zenon
     DEF BackendsIInv
<1>. QED
  BY <1>1, <1>2, <1>3, Zenon DEF BackendsIInv

LEMMA BackendsInvariant == Spec => []BackendsIInv
BY BackendsInitInvariant, BackendsStepInvariant, PTL DEF Spec

(* Whichever part of a recording runs, it keeps to its own state space     *)
(* (the type invariants of all parts).                                     *)
THEOREM BackendsTypeCorrect == Spec => []TypeOK
<1>1. BackendsIInv => TypeOK
  BY NvfbcTypes, Zenon
     DEF BackendsIInv, TypeOK, KmsIInv, MonitorIInv, WindowIInv, SessionIInv,
         VideoIInv, DamageIInv, SoundIInv, OverclockIInv, StartupIInv
<1>. QED
  BY <1>1, BackendsInvariant, PTL

(* Whichever part of a recording runs, no descriptor leaks, answers and    *)
(* responses are those asked for, no damage and no buffer is lost, the     *)
(* monitor drawn is the one recorded, a portal session fails only when it  *)
(* is refused and keeps its token, the GPU is not overclocked beyond its   *)
(* best level, and what was started fits together.                         *)
THEOREM BackendsSafe ==
    Spec => []/\ NoFdLeak /\ AnswersMatch /\ OnlyRecordedIsShown
              /\ ResponsesMatch /\ FailsOnlyWhenRefused /\ TokenStaysValid
              /\ NoBufferLost /\ NoLostDamage /\ NotOverclockedBeyondBest
              /\ CodecsFitContainer /\ CaptureFitsSession
<1>1. BackendsIInv => NoFdLeak /\ AnswersMatch /\ OnlyRecordedIsShown
  BY DEF BackendsIInv, KmsIInv, MonitorIInv, OneMessage, AnswersMatch
<1>2. BackendsIInv =>
          ResponsesMatch /\ FailsOnlyWhenRefused /\ TokenStaysValid
  BY SessionIsSafe, Zenon DEF BackendsIInv
<1>3. BackendsIInv => NoBufferLost /\ NoLostDamage /\ NotOverclockedBeyondBest
  BY LiftedIsBearable, Zenon DEF BackendsIInv, VideoIInv, DamageIInv
<1>4. BackendsIInv => CodecsFitContainer /\ CaptureFitsSession
  BY StartupIsSafe, Zenon DEF BackendsIInv
<1>. QED
  BY <1>1, <1>2, <1>3, <1>4, BackendsInvariant, PTL

(* Whichever part of a recording runs, the chunks that come out of the     *)
(* sound client are the stream that went in.                               *)
THEOREM BackendsChunks == Spec => ChunksAreTheStream
<1>1. BackendsIInv /\ [Next]_backendVars =>
        [chunk' # chunk =>
            /\ chunk' = From(chunk'[1] - 1 + Circle, ChunkLength)
            /\ chunk # <<>> => chunk'[1] = Byte(chunk[ChunkLength] + 1)]_chunk
  BY PartsStep, SoundStepInvariant DEF BackendsIInv
<1>2. Spec => [][Next]_backendVars
  BY PTL DEF Spec
<1>. QED
  BY <1>1, <1>2, BackendsInvariant, PTL DEF ChunksAreTheStream
=============================================================================
