------------------------------ MODULE Kms_proofs ------------------------------
(***************************************************************************)
(* What is proved of the KMS client and server for every set of planes,    *)
(* every way and version the server is started with, and with crashes of   *)
(* both: no descriptor leaks, answers are matched to requests, and the     *)
(* handshake leaves nothing behind.  And of the capture of a monitor for   *)
(* every set of monitors and CRTCs: which plane it draws.                  *)
(***************************************************************************)
EXTENDS Kms, KmsCapture, TLAPS

USE KmsAssumption

(* One message is under way at a time while the server lives, and none     *)
(* between the client's exchanges but what a dead server left.             *)
OneMessage ==
    /\ server # "dead" => requests + replies <= 1
    /\ client \in {"waiting", "drawing"} => replies = 0
    /\ client \in {"idle", "sending"} =>
          replies = 0 \/ (server = "dead" /\ pid = "reaped")
    /\ client \in {"idle", "sending", "drawing"} /\ server # "dead" =>
          requests = 0

(* Until it has answered over the socketpair, nothing has been sent there, *)
(* and its pid is only forgotten at the end.                               *)
Handshake ==
    /\ client \in Connecting => requests = 0 /\ carried = {}
    /\ server \in {"connecting", "first", "ignored"} =>
          /\ client \in Connecting \cup Gone
          /\ requests = 0 /\ replies = 0
    /\ client = "waiting" => initial \in {"none", "connected"}
    /\ pid = "none" => client \in Gone

KmsIInv ==
    KmsTypeOK /\ OneMessage /\ Handshake /\ NoFdLeak /\ SocketFileRemoved

-----------------------------------------------------------------------------
LEMMA KmsInitInvariant == KmsInit => KmsIInv
BY DEF KmsInit, KmsIInv, KmsTypeOK, OneMessage, Handshake, NoFdLeak,
       SocketFileRemoved, Gone, Connecting

LEMMA KmsStepInvariant == KmsIInv /\ [KmsNext]_kmsVars => KmsIInv'
<1> SUFFICES ASSUME KmsIInv, [KmsNext]_kmsVars PROVE KmsIInv'
  OBVIOUS
<1>. USE DEF KmsIInv, KmsTypeOK, OneMessage, Handshake, NoFdLeak,
             SocketFileRemoved, environment
<1>1. CASE SendReplace
  BY <1>1 DEF SendReplace, ClientKilled, Gone, Connecting, Asking
<1>2. CASE ServerNeverCame
  BY <1>2 DEF ServerNeverCame, Deinit, Gone, Connecting, Asking
<1>3. CASE Replaced
  <2>1. replies = 1 /\ replies' = 0
    BY <1>3 DEF Replaced
  <2>2. server \notin {"connecting", "first", "ignored"}
    BY <2>1
  <2>3. client = "replacing" /\ client' = "idle" /\ file' = FALSE
          /\ initial' = "closed"
    BY <1>3 DEF Replaced
  <2>4. UNCHANGED <<start, version, server, pid, local, remote, requests,
                    carried, clientFds, serverFds>>
    BY <1>3 DEF Replaced
  <2>5. requests = 0 /\ carried = {} /\ clientFds = {} /\ pid # "none"
    BY <2>3 DEF Connecting, Gone
  <2>6. KmsTypeOK'
    <3>1. file' \in BOOLEAN /\ client' = "idle" /\ initial' = "closed"
      BY <2>3
    <3>. QED
      BY <2>1, <2>4, <3>1
  <2>7. OneMessage' /\ Handshake'
    BY <2>1, <2>2, <2>3, <2>4, <2>5
  <2>8. NoFdLeak' /\ SocketFileRemoved'
    BY <2>3, <2>4, <2>5
  <2>. QED
    BY <2>6, <2>7, <2>8
<1>4. CASE ReplaceFails
  BY <1>4 DEF ReplaceFails, ServerGone, Deinit, Gone, Connecting, Asking
<1>5. CASE BeginFrame
  BY <1>5 DEF BeginFrame, Gone, Connecting, Asking
<1>6. CASE SendGet
  BY <1>6 DEF SendGet, Gone, Connecting, Asking
<1>7. CASE Got
  BY <1>7 DEF Got, Gone, Connecting, Asking
<1>8. CASE GetFails
  <2>1. KmsTypeOK'
    BY <1>8 DEF GetFails, ServerGone, Gone, Connecting, Asking
  <2>2. OneMessage'
    <3>1. client' = "idle" /\ server' = "dead" /\ pid # "none"
      BY <1>8 DEF GetFails, ServerGone, Gone
    <3>2. pid' = "reaped"
      BY <1>8, <3>1 DEF GetFails
    <3>. QED
      BY <3>1, <3>2
  <2>3. Handshake'
    BY <1>8 DEF GetFails, ServerGone, Gone, Connecting, Asking
  <2>4. NoFdLeak' /\ SocketFileRemoved'
    BY <1>8 DEF GetFails, ServerGone, Gone, Connecting, Asking
  <2>. QED
    BY <2>1, <2>2, <2>3, <2>4
<1>9. CASE EndFrame
  BY <1>9 DEF EndFrame, Gone, Connecting, Asking
<1>10. CASE Close
  BY <1>10 DEF Close, Deinit, Gone, Connecting, Asking
<1>11. CASE Connect
  BY <1>11 DEF Connect
<1>12. CASE ConnectTimesOut
  BY <1>12 DEF ConnectTimesOut, ServerEnds
<1>13. CASE Replace
  <2>1. KmsTypeOK'
    BY <1>13 DEF Replace
  <2>2. OneMessage'
    <3>1. client \notin {"waiting", "idle", "sending", "drawing"}
      BY <1>13 DEF Replace, Gone, Connecting
    <3>2. /\ server = "first" /\ requests = 0 /\ replies = 0
          /\ requests' = 0 /\ (replies' = 0 \/ replies' = 1)
          /\ client' = client
      BY <1>13 DEF Replace
    <3>3. requests' + replies' <= 1
      <4>1. CASE replies' = 0
        BY <3>2, <4>1
      <4>2. CASE replies' = 1
        BY <3>2, <4>2
      <4>. QED
        BY <3>2, <4>1, <4>2
    <3>. QED
      BY <3>1, <3>2, <3>3
  <2>3. Handshake'
    BY <1>13 DEF Replace
  <2>4. NoFdLeak' /\ SocketFileRemoved'
    BY <1>13 DEF Replace
  <2>. QED
    BY <2>1, <2>2, <2>3, <2>4
<1>14. CASE FirstClosed
  BY <1>14 DEF FirstClosed, ServerEnds
<1>15. CASE Answer
  <2>1. KmsTypeOK'
    BY <1>15 DEF Answer, ServerEnds, Exported
  <2>2. OneMessage'
    BY <1>15 DEF Answer, ServerEnds, Exported
  <2>3. Handshake'
    BY <1>15 DEF Answer, ServerEnds, Exported
  <2>4. NoFdLeak' /\ SocketFileRemoved'
    BY <1>15 DEF Answer, ServerEnds, Exported
  <2>. QED
    BY <2>1, <2>2, <2>3, <2>4
<1>16. CASE CloseExported
  BY <1>16 DEF CloseExported
<1>17. CASE ClientShutdown
  BY <1>17 DEF ClientShutdown, ServerEnds
<1>18. CASE ServerDies
  BY <1>18 DEF ServerDies, ServerEnds
<1>19. CASE ClientCrashes
  BY <1>19 DEF ClientCrashes, ClientKilled, Gone, Connecting, Asking
<1>20. CASE NoAnswer("replacing", "replacing, no answer")
  BY <1>20 DEF NoAnswer, Gone, Connecting, Asking
<1>21. CASE LookAgain("replacing", "replacing, no answer")
  BY <1>21 DEF LookAgain, Gone, Connecting, Asking
<1>22. CASE NoAnswer("getting", "getting, no answer")
  BY <1>22 DEF NoAnswer, Gone, Connecting, Asking
<1>23. CASE LookAgain("getting", "getting, no answer")
  BY <1>23 DEF LookAgain, Gone, Connecting, Asking
<1>24. CASE UNCHANGED kmsVars
  <2>1. KmsTypeOK'
    BY <1>24 DEF kmsVars
  <2>2. OneMessage'
    BY <1>24 DEF kmsVars
  <2>3. Handshake'
    BY <1>24 DEF kmsVars
  <2>4. NoFdLeak' /\ SocketFileRemoved'
    BY <1>24 DEF kmsVars
  <2>. QED
    BY <2>1, <2>2, <2>3, <2>4
<1>. QED
  BY <1>1, <1>2, <1>3, <1>4, <1>5, <1>6, <1>7, <1>8, <1>9, <1>10, <1>11,
     <1>12, <1>13, <1>14, <1>15, <1>16, <1>17, <1>18, <1>19, <1>20,
     <1>21, <1>22, <1>23, <1>24
     DEF KmsNext, Client, Server

LEMMA KmsInvariant == KmsSpec => []KmsIInv
BY KmsInitInvariant, KmsStepInvariant, PTL DEF KmsSpec

-----------------------------------------------------------------------------
(* Every variable keeps to its type: the socket's buffer is respected and  *)
(* never more than one answer is queued (kms_client.c, kms_server.c).      *)
THEOREM KmsTypeCorrect == KmsSpec => []KmsTypeOK
<1>1. KmsIInv => KmsTypeOK
  BY DEF KmsIInv
<1>. QED
  BY KmsInvariant, <1>1, PTL

(* Whichever process dies or fails when, no dma-buf stays open beyond the  *)
(* frame it belongs to.                                                    *)
THEOREM KmsNoFdLeak == KmsSpec => []NoFdLeak
<1>1. KmsIInv => NoFdLeak
  BY DEF KmsIInv
<1>. QED
  BY KmsInvariant, <1>1, PTL

(* When the client asks for a frame's planes no older answer is queued,    *)
(* unless a server left it that died between the client's look and its     *)
(* waitpid, and then the client knows that it is dead.                     *)
THEOREM KmsAnswersMatch == KmsSpec => []AnswersMatch
<1>1. KmsIInv => AnswersMatch
  BY DEF KmsIInv, OneMessage, AnswersMatch
<1>. QED
  BY KmsInvariant, <1>1, PTL

(* However gsr_kms_client_init ends, the socket file is gone and the first *)
(* connection closed.                                                      *)
THEOREM KmsSocketFileRemoved == KmsSpec => []SocketFileRemoved
<1>1. KmsIInv => SocketFileRemoved
  BY DEF KmsIInv
<1>. QED
  BY KmsInvariant, <1>1, PTL
-----------------------------------------------------------------------------
(* The capture of a monitor.                                               *)

(* The server's map names a CRTC once, and unless one has moved to another *)
(* monitor it has none under a wrong name.                                 *)
MapIsRight ==
    /\ c2crtc_map \in [Monitors -> Crtcs \cup {0}]
    /\ \A m, n \in Monitors :
          m # n /\ c2crtc_map[m] # 0 => c2crtc_map[m] # c2crtc_map[n]
    /\ monitor_changes = 0 => crtc = c2crtc_map
    /\ ~relabelled => \A m \in Monitors : On(m) => Label(crtc[m]) \in {m, 0}

(* The same of the planes the capture was told of.                         *)
LabelsAreRight ==
    /\ ~relabelled => \A i \in items : i.label \in {i.of, 0}
    /\ monitor_changes = 0 => \A i \in items : i.label = i.of

MonitorIInv ==
    /\ MonitorTypeOK
    /\ is_x11 \in BOOLEAN
    /\ MapIsRight
    /\ LabelsAreRight
    /\ OnlyRecordedIsShown

(* As long as the map is that of the monitors, each has its own label.     *)
LEMMA OwnLabel ==
    ASSUME MapIsRight, NEW m \in Monitors, c2crtc_map[m] # 0
    PROVE  Label(c2crtc_map[m]) = m
BY DEF MapIsRight, Label

(* A label is a monitor or none.                                           *)
LEMMA LabelType == \A c : Label(c) \in Monitors \cup {0}
BY DEF Label

LEMMA MonitorInitInvariant == MonitorInit => MonitorIInv
<1> SUFFICES ASSUME MonitorInit PROVE MonitorIInv
  OBVIOUS
<1>1. MonitorTypeOK
  <2>1. picture_of \in [Monitors -> Pictures] /\ cached = picture_of
    BY DEF MonitorInit, Pictures
  <2>2. {monitor_rotation, check_due, relabelled} \subseteq BOOLEAN
    BY DEF MonitorInit
  <2>. QED
    BY <2>1, <2>2, KmsCaptureAssumption DEF MonitorInit, MonitorTypeOK, On
<1>2. MapIsRight
  <2>1. /\ c2crtc_map \in [Monitors -> Crtcs \cup {0}] /\ crtc = c2crtc_map
        /\ \A m, n \in Monitors :
              m # n /\ c2crtc_map[m] # 0 => c2crtc_map[m] # c2crtc_map[n]
    BY DEF MonitorInit, On
  <2>2. \A m \in Monitors : On(m) => Label(crtc[m]) = m
    BY <2>1 DEF On, Label
  <2>. QED
    BY <2>1, <2>2 DEF MapIsRight
<1>3. LabelsAreRight /\ OnlyRecordedIsShown /\ is_x11 \in BOOLEAN
  BY DEF MonitorInit, LabelsAreRight, OnlyRecordedIsShown, NoShot
<1>. QED
  BY <1>1, <1>2, <1>3 DEF MonitorIInv

(* What the monitors do changes neither what the capture was told nor what *)
(* it has drawn, and a monitor that comes back does so on a CRTC that is   *)
(* not another's in the map, or that is noted.                             *)
LEMMA MonitorsInvariant ==
    ASSUME MonitorIInv, NEW m \in Monitors,
           TurnOff(m) \/ TurnOn(m) \/ ChangePicture(m) \/ MoveCursor(m)
    PROVE  MonitorIInv'
<1>. USE KmsCaptureAssumption
<1>1. /\ monitor_changes' \in 0 .. MaxMonitorChanges /\ monitor_changes' # 0
      /\ UNCHANGED <<is_x11, cached, c2crtc_map, capture_step, connector_ids,
                     monitor_rotation, check_due, items, shot>>
  BY DEF TurnOff, TurnOn, ChangePicture, MoveCursor, MonitorChanges,
         MonitorIInv, MonitorTypeOK
<1>2. /\ relabelled' \in BOOLEAN /\ (relabelled => relabelled')
      /\ picture_of' \in [Monitors -> Pictures]
  <2>1. CASE TurnOn(m)
    <3>1. PICK c \in Crtcs :
            relabelled' = (relabelled \/ Label(c) \notin {m, 0})
      BY <2>1 DEF TurnOn
    <3>2. relabelled' \in BOOLEAN /\ (relabelled => relabelled')
      BY <3>1, Zenon
    <3>. QED
      BY <2>1, <3>2 DEF TurnOn, MonitorIInv, MonitorTypeOK
  <2>2. CASE relabelled' = relabelled
    BY <2>2 DEF TurnOff, TurnOn, ChangePicture, MoveCursor,
                MonitorIInv, MonitorTypeOK
  <2>. QED
    BY <2>1, <2>2 DEF TurnOff, ChangePicture, MoveCursor
<1>3. /\ crtc' \in [Monitors -> Crtcs \cup {0}]
      /\ \A k, n \in Monitors : k # n /\ crtc'[k] # 0 => crtc'[k] # crtc'[n]
      /\ ~relabelled' =>
            \A k \in Monitors : crtc'[k] # 0 => Label(crtc'[k]) \in {k, 0}
  <2>1. CASE TurnOff(m)
    BY <2>1 DEF TurnOff, MonitorIInv, MonitorTypeOK, MapIsRight, On
  <2>2. CASE TurnOn(m)
    <3>1. PICK c \in Crtcs \ {crtc[n] : n \in Monitors} :
            /\ crtc' = [crtc EXCEPT ![m] = c]
            /\ relabelled' = (relabelled \/ Label(c) \notin {m, 0})
      BY <2>2 DEF TurnOn
    <3>. QED
      BY <3>1 DEF MonitorIInv, MonitorTypeOK, MapIsRight, On
  <2>3. CASE UNCHANGED <<crtc, relabelled>>
    BY <2>3 DEF MonitorIInv, MonitorTypeOK, MapIsRight, On
  <2>. QED
    BY <2>1, <2>2, <2>3 DEF ChangePicture, MoveCursor
<1>4. \A c : Label(c)' = Label(c)
  BY <1>1 DEF Label
<1>5. MonitorTypeOK'
  BY <1>1, <1>2, <1>3 DEF MonitorIInv, MonitorTypeOK, On
<1>6. MapIsRight' /\ LabelsAreRight' /\ OnlyRecordedIsShown'
  BY <1>1, <1>2, <1>3, <1>4 DEF MonitorIInv, MapIsRight, LabelsAreRight,
                                OnlyRecordedIsShown, On, Label
<1>. QED
  BY <1>1, <1>5, <1>6 DEF MonitorIInv

(* A rotation is one that is cached.                                       *)
LEMMA RotationType ==
    ASSUME MonitorIInv, LookUpRotation PROVE monitor_rotation' \in BOOLEAN
BY KmsCaptureAssumption
DEF MonitorIInv, MonitorTypeOK, LookUpRotation, Pictures

(* On Wayland only planes of the recorded monitor's label are drawn; on    *)
(* X11 the whole screen may be.                                            *)
LEMMA DrawInvariant == MonitorIInv /\ DrawPlane => OnlyRecordedIsShown'
<1> SUFFICES ASSUME MonitorIInv, DrawPlane,
                    IF is_x11 THEN monitor_changes = 0 ELSE ~relabelled
             PROVE  \/ shot'.of \in {"nothing", Recorded}
                    \/ is_x11 /\ shot'.of = Screen
  BY DEF DrawPlane, monitors, OnlyRecordedIsShown
<1>. USE KmsCaptureAssumption
<1>. DEFINE found == {i \in items : i.label \in connector_ids}
<1>1. \A i \in found : i.of = Recorded
  BY DEF MonitorIInv, MonitorTypeOK, LabelsAreRight
<1>2. \/ \E i \in found : shot'.of = i.of
      \/ Combined(found) /\ shot'.of = (IF is_x11 THEN Screen ELSE Recorded)
      \/ shot' = shot
  BY DEF DrawPlane, Combined
<1>. QED
  BY <1>1, <1>2 DEF MonitorIInv, OnlyRecordedIsShown, Combined

LEMMA MonitorStepInvariant ==
    MonitorIInv /\ [MonitorNext]_monitorVars => MonitorIInv'
<1> SUFFICES ASSUME MonitorIInv, [MonitorNext]_monitorVars PROVE MonitorIInv'
  OBVIOUS
<1>. USE KmsCaptureAssumption
<1>. USE DEF MonitorIInv, MonitorTypeOK, MapIsRight, LabelsAreRight,
             OnlyRecordedIsShown, On, Label, monitors
<1>1. CASE StartMonitor
  <2>1. monitor_rotation' \in BOOLEAN
    BY <1>1, RotationType DEF StartMonitor
  <2>2. connector_ids' \subseteq IF is_x11 THEN {Recorded, 0} ELSE {Recorded}
    BY <1>1 DEF StartMonitor
  <2>. QED
    BY <1>1, <2>1, <2>2 DEF StartMonitor
<1>2. CASE AskForPlanes
  BY <1>2 DEF AskForPlanes
<1>3. CASE UpdateConnectorIds
  <2>1. monitor_rotation' \in BOOLEAN /\ check_due' \in BOOLEAN
    BY <1>3, RotationType DEF UpdateConnectorIds
  <2>2. connector_ids' \subseteq IF is_x11 THEN {Recorded, 0} ELSE {Recorded}
    BY <1>3 DEF UpdateConnectorIds
  <2>. QED
    BY <1>3, <2>1, <2>2 DEF UpdateConnectorIds
<1>4. CASE DrawPlane
  BY <1>4, DrawInvariant DEF DrawPlane
<1>5. CASE CheckTime
  BY <1>5 DEF CheckTime
<1>6. CASE OutputEvents
  BY <1>6 DEF OutputEvents
<1>7. CASE UNCHANGED monitorVars
  BY <1>7 DEF monitorVars
<1>. QED
  BY <1>1, <1>2, <1>3, <1>4, <1>5, <1>6, <1>7, MonitorsInvariant
     DEF MonitorNext, MonitorStep

LEMMA MonitorInvariant == MonitorSpec => []MonitorIInv
BY MonitorInitInvariant, MonitorStepInvariant, PTL DEF MonitorSpec

(* Monitors, planes and the capture keep to their types (capture/kms.c).   *)
THEOREM MonitorTypeCorrect == MonitorSpec => []MonitorTypeOK
<1>1. MonitorIInv => MonitorTypeOK
  BY DEF MonitorIInv
<1>. QED
  BY MonitorInvariant, <1>1, PTL

(* Whatever is turned off, turned on, rotated or given another mode while  *)
(* the map stays as it was, no other monitor's plane is drawn              *)
(* (find_monitor_drm, kms_get_fb's labels).                                *)
THEOREM MonitorOnlyRecorded == MonitorSpec => []OnlyRecordedIsShown
<1>1. MonitorIInv => OnlyRecordedIsShown
  BY DEF MonitorIInv
<1>. QED
  BY MonitorInvariant, <1>1, PTL
=============================================================================
