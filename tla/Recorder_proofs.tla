--------------------------- MODULE Recorder_proofs ---------------------------
(***************************************************************************)
(* What is proved of the recorder for every set of devices, merged or not, *)
(* and any number of signals: one thread at a time is in the filter graph  *)
(* and in the output, and saves are kept apart.                            *)
(***************************************************************************)
EXTENDS Recorder, FiniteSetTheorems, TLAPS

USE RecorderAssumption

-----------------------------------------------------------------------------
(* The invariant.                                                          *)

(* Who is inside the filter graph holds its mutex, also while draining an  *)
(* encoder in the middle, and who writes a packet holds the other one.     *)
HoldersAreInside ==
    \A t \in Threads :
        /\ InGraph(t) => filter = t
        /\ pc[t] = "write" => out = t /\ packets[t] > 0

(* The trailer is written when all other threads have left their loops.    *)
OthersHaveLeft ==
    /\ pc[Main] \in {"trailer", "done"} =>
          \A t \in Threads \ {Main} : pc[t] = "exit"
    /\ output = "closed" => pc[Main] = "done"

(* Saves are begun one at a time, one for each SIGUSR1 at most.            *)
OneSaveAtATime ==
    /\ pc[Main] = "snapshot" => saver = "none"
    /\ pc[Main] = "open" => saver = "none" /\ copy = attempts
    /\ saver # "none" => path = attempts
    /\ saver = "running" => copy = attempts /\ streams = attempts
    /\ saver # "none" \/ pc[Main] = "open" =>
          attempts > 0 /\ attempts \notin printed
    /\ printed \subseteq 1 .. attempts
    /\ attempts + (IF save_replay THEN 1 ELSE 0)
          + (IF pc[Main] = "snapshot" THEN 1 ELSE 0) <= saves

IInv == TypeOK /\ HoldersAreInside /\ OthersHaveLeft /\ OneSaveAtATime

-----------------------------------------------------------------------------
(* Every step keeps to the types.                                          *)
LEMMA TypeStep ==
    TypeOK /\ HoldersAreInside /\ [Next]_vars => TypeOK'
<1> SUFFICES ASSUME TypeOK, HoldersAreInside, [Next]_vars PROVE TypeOK'
  OBVIOUS
<1>. USE DEF TypeOK, signals, locks, devs, replays, Goto
<1>0. Main \in Threads
  BY DEF Threads
<1>1. CASE Sigint
  BY <1>0, <1>1 DEF Sigint
<1>2. CASE Sigusr1
  BY <1>0, <1>2 DEF Sigusr1
<1>3. CASE Sigusr2
  BY <1>0, <1>3 DEF Sigusr2
<1>4. CASE MainPoll
  <2>1. CASE UNCHANGED <<back, packets>>
    <3>1. running' = running \/ running' = FALSE
      BY <1>4, <2>1 DEF MainPoll, Send
    <3>2. pc' = [pc EXCEPT ![Main] = "stopping"]
            \/ pc' = [pc EXCEPT ![Main] = "pause"]
            \/ pc' = [pc EXCEPT ![Main] = "drain"]
      BY <1>4, <2>1 DEF MainPoll, Send
    <3>3. UNCHANGED <<save_replay, toggle_pause, saves, pauses, unserved,
            wanted, paused, announced, locks, devs, output, replays>>
      BY <1>4 DEF MainPoll
    <3>. QED
      BY <1>0, <2>1, <3>1, <3>2, <3>3
  <2>2. CASE UNCHANGED running /\ Send(Main, "pause")
    BY <1>0, <1>4, <2>2 DEF MainPoll, Send
  <2>. QED
    BY <1>4, <2>1, <2>2 DEF MainPoll
<1>5. CASE MainPause
  BY <1>0, <1>5 DEF MainPause
<1>6. CASE MainToggle
  BY <1>0, <1>6 DEF MainToggle
<1>7. CASE MainCollect
  <2>1. CASE saver = "ready"
    <3>1. saver' = "none" /\ copy' = 0 /\ printed' = printed \cup {path}
          /\ UNCHANGED <<path, streams, attempts>>
      BY <1>7, <2>1 DEF MainCollect, CollectSave
    <3>2. path \in Nat /\ printed' \subseteq Nat
      BY <3>1
    <3>3. {copy', path', streams', attempts'} \subseteq Nat
      BY <3>1
    <3>. HIDE DEF replays
    <3>. QED
      BY <1>0, <1>7, <3>1, <3>2, <3>3 DEF MainCollect
  <2>2. CASE saver # "ready"
    BY <1>0, <1>7, <2>2 DEF MainCollect
  <2>. QED
    BY <2>1, <2>2
<1>8. CASE MainSave
  BY <1>0, <1>8 DEF MainSave
<1>9. CASE MainSnapshot
  <2>1. attempts \in Nat
    OBVIOUS
  <2>2. attempts' \in Nat /\ copy' \in Nat
    BY <1>9, <2>1 DEF MainSnapshot
  <2>. QED
    BY <1>0, <1>9, <2>2 DEF MainSnapshot
<1>10. CASE MainOpen
  BY <1>0, <1>10 DEF MainOpen
<1>11. CASE MainStopping
  <2>1. CASE saver = "ready"
    <3>1. saver' = "none" /\ copy' = 0 /\ printed' = printed \cup {path}
          /\ UNCHANGED <<path, streams, attempts>>
      BY <1>11, <2>1 DEF MainStopping, CollectSave
    <3>2. path \in Nat /\ printed' \subseteq Nat
      BY <3>1
    <3>3. {copy', path', streams', attempts'} \subseteq Nat
      BY <3>1
    <3>. HIDE DEF replays
    <3>. QED
      BY <1>0, <1>11, <3>1, <3>2, <3>3 DEF MainStopping
  <2>2. CASE saver # "ready"
    BY <1>0, <1>11, <2>2 DEF MainStopping
  <2>. QED
    BY <2>1, <2>2
<1>12. CASE MainJoin
  BY <1>0, <1>12 DEF MainJoin
<1>13. CASE MainTrailer
  BY <1>0, <1>13 DEF MainTrailer
<1>14. ASSUME NEW t \in Threads, ReceiveFrames(t) PROVE TypeOK'
  <2>1. CASE Drained(t)
    BY <1>0, <2>1 DEF Drained
  <2>2. CASE LockOut(t)
    BY <1>0, <2>2 DEF LockOut
  <2>3. CASE Write(t)
    BY <2>3 DEF Write, HoldersAreInside
  <2>. QED
    BY <1>14, <2>1, <2>2, <2>3 DEF ReceiveFrames
<1>15. ASSUME NEW d \in Devices, Device(d) PROVE TypeOK'
  <2>0. d \in Threads /\ d # Main
    BY DEF Threads
  <2>1. CASE DeviceCheck(d)
    BY <1>0, <2>0, <2>1 DEF DeviceCheck
  <2>2. CASE DeviceRead(d)
    BY <1>0, <2>0, <2>2 DEF DeviceRead
  <2>3. CASE DeviceFails(d)
    BY <1>0, <2>0, <2>3 DEF DeviceFails
  <2>4. CASE LockFilter(d, "lock", "silence")
    BY <1>0, <2>0, <2>4 DEF LockFilter
  <2>5. CASE InsertSilence(d)
    BY <1>0, <2>0, <2>5 DEF InsertSilence, Send, Unlock, ToGraph
  <2>6. CASE EncodeChunk(d)
    BY <1>0, <2>0, <2>6 DEF EncodeChunk, Send
  <2>7. CASE AddToGraph(d)
    BY <1>0, <2>0, <2>7 DEF AddToGraph, Unlock, ToGraph
  <2>. QED
    BY <1>14, <1>15, <2>0, <2>1, <2>2, <2>3, <2>4, <2>5, <2>6, <2>7
       DEF Device
<1>16. CASE Merged # {} /\ Mix
  <2>0. Amix \in Threads /\ Amix # Main
    BY <1>16 DEF Threads, Mixer
  <2>1. CASE AmixCheck
    BY <1>0, <2>0, <2>1 DEF AmixCheck
  <2>2. CASE LockFilter(Amix, "lock", "sink")
    BY <1>0, <2>0, <2>2 DEF LockFilter
  <2>3. CASE AmixTake
    BY <1>0, <2>0, <2>3 DEF AmixTake, Send, Unlock
  <2>. QED
    BY <1>14, <1>16, <2>0, <2>1, <2>2, <2>3 DEF Mix
<1>17. CASE SaverTask
  BY <1>0, <1>17 DEF SaverTask
<1>18. CASE UNCHANGED vars
  BY <1>18 DEF vars
<1>. QED
  BY <1>0, <1>1, <1>2, <1>3, <1>4, <1>5, <1>6, <1>7, <1>8, <1>9, <1>10, <1>11,
     <1>12, <1>13, <1>14, <1>15, <1>16, <1>17, <1>18
     DEF Next, MainLoop, Terminated

(* No step makes two threads meet.                                         *)
LEMMA HolderStep ==
    TypeOK /\ HoldersAreInside /\ [Next]_vars => HoldersAreInside'
<1> SUFFICES ASSUME TypeOK, HoldersAreInside, [Next]_vars
             PROVE  HoldersAreInside'
  OBVIOUS
<1>. USE DEF TypeOK, HoldersAreInside, InGraph, signals, locks, devs, replays,
             Goto
<1>0. Main \in Threads
  BY DEF Threads
<1>1. CASE Sigint
  BY <1>0, <1>1 DEF Sigint
<1>2. CASE Sigusr1
  BY <1>0, <1>2 DEF Sigusr1
<1>3. CASE Sigusr2
  BY <1>0, <1>3 DEF Sigusr2
<1>4. CASE MainPoll
  BY <1>0, <1>4 DEF MainPoll, Send
<1>5. CASE MainPause
  BY <1>0, <1>5 DEF MainPause
<1>6. CASE MainToggle
  BY <1>0, <1>6 DEF MainToggle
<1>7. CASE MainCollect
  BY <1>0, <1>7 DEF MainCollect, CollectSave
<1>8. CASE MainSave
  BY <1>0, <1>8 DEF MainSave
<1>9. CASE MainSnapshot
  BY <1>0, <1>9 DEF MainSnapshot
<1>10. CASE MainOpen
  BY <1>0, <1>10 DEF MainOpen
<1>11. CASE MainStopping
  BY <1>0, <1>11 DEF MainStopping, CollectSave
<1>12. CASE MainJoin
  BY <1>0, <1>12 DEF MainJoin
<1>13. CASE MainTrailer
  BY <1>0, <1>13 DEF MainTrailer
<1>14. ASSUME NEW t \in Threads, ReceiveFrames(t) PROVE HoldersAreInside'
  <2>1. CASE Drained(t)
    BY <1>0, <2>1 DEF Drained
  <2>2. CASE LockOut(t)
    BY <1>0, <2>2 DEF LockOut, Threads, Mixer
  <2>3. CASE Write(t)
    BY <1>0, <2>3 DEF Write
  <2>. QED
    BY <1>14, <2>1, <2>2, <2>3 DEF ReceiveFrames
<1>15. ASSUME NEW d \in Devices, Device(d) PROVE HoldersAreInside'
  <2>0. d \in Threads /\ d # Main
    BY DEF Threads
  <2>1. CASE DeviceCheck(d)
    BY <1>0, <2>0, <2>1 DEF DeviceCheck
  <2>2. CASE DeviceRead(d)
    BY <1>0, <2>0, <2>2 DEF DeviceRead
  <2>3. CASE DeviceFails(d)
    BY <1>0, <2>0, <2>3 DEF DeviceFails
  <2>4. CASE LockFilter(d, "lock", "silence")
    BY <1>0, <2>0, <2>4 DEF LockFilter, Threads, Mixer
  <2>5. CASE InsertSilence(d)
    BY <1>0, <2>0, <2>5 DEF InsertSilence, Send, Unlock, ToGraph
  <2>6. CASE EncodeChunk(d)
    BY <1>0, <2>0, <2>6 DEF EncodeChunk, Send, Threads, Mixer
  <2>7. CASE AddToGraph(d)
    BY <1>0, <2>0, <2>7 DEF AddToGraph, Unlock, ToGraph
  <2>. QED
    BY <1>14, <1>15, <2>0, <2>1, <2>2, <2>3, <2>4, <2>5, <2>6, <2>7
       DEF Device
<1>16. CASE Merged # {} /\ Mix
  <2>0. Amix \in Threads /\ Amix # Main
    BY <1>16 DEF Threads, Mixer
  <2>1. CASE AmixCheck
    BY <1>0, <2>0, <2>1 DEF AmixCheck
  <2>2. CASE LockFilter(Amix, "lock", "sink")
    BY <1>0, <2>0, <2>2 DEF LockFilter, Threads, Mixer
  <2>3. CASE AmixTake
    BY <1>0, <2>0, <2>3 DEF AmixTake, Send, Unlock
  <2>. QED
    BY <1>14, <1>16, <2>0, <2>1, <2>2, <2>3 DEF Mix
<1>17. CASE SaverTask
  BY <1>0, <1>17 DEF SaverTask
<1>18. CASE UNCHANGED vars
  BY <1>18 DEF vars
<1>. QED
  BY <1>0, <1>1, <1>2, <1>3, <1>4, <1>5, <1>6, <1>7, <1>8, <1>9, <1>10, <1>11,
     <1>12, <1>13, <1>14, <1>15, <1>16, <1>17, <1>18
     DEF Next, MainLoop, Terminated

(* No thread that has left comes back.                                     *)
LEMMA LeftStep ==
    TypeOK /\ OthersHaveLeft /\ [Next]_vars => OthersHaveLeft'
<1> SUFFICES ASSUME TypeOK, OthersHaveLeft, [Next]_vars PROVE OthersHaveLeft'
  OBVIOUS
<1>. USE DEF TypeOK, OthersHaveLeft, signals, locks, devs, replays, Goto
<1>0. Main \in Threads
  BY DEF Threads
<1>1. CASE Sigint
  BY <1>0, <1>1 DEF Sigint
<1>2. CASE Sigusr1
  BY <1>0, <1>2 DEF Sigusr1
<1>3. CASE Sigusr2
  BY <1>0, <1>3 DEF Sigusr2
<1>4. CASE MainPoll
  BY <1>0, <1>4 DEF MainPoll, Send
<1>5. CASE MainPause
  BY <1>0, <1>5 DEF MainPause
<1>6. CASE MainToggle
  BY <1>0, <1>6 DEF MainToggle
<1>7. CASE MainCollect
  BY <1>0, <1>7 DEF MainCollect, CollectSave
<1>8. CASE MainSave
  BY <1>0, <1>8 DEF MainSave
<1>9. CASE MainSnapshot
  BY <1>0, <1>9 DEF MainSnapshot
<1>10. CASE MainOpen
  BY <1>0, <1>10 DEF MainOpen
<1>11. CASE MainStopping
  BY <1>0, <1>11 DEF MainStopping, CollectSave
<1>12. CASE MainJoin
  BY <1>0, <1>12 DEF MainJoin
<1>13. CASE MainTrailer
  BY <1>0, <1>13 DEF MainTrailer
<1>14. ASSUME NEW t \in Threads, ReceiveFrames(t) PROVE OthersHaveLeft'
  <2>1. CASE Drained(t)
    BY <1>0, <2>1 DEF Drained
  <2>2. CASE LockOut(t)
    BY <1>0, <2>2 DEF LockOut
  <2>3. CASE Write(t)
    BY <1>0, <2>3 DEF Write
  <2>. QED
    BY <1>14, <2>1, <2>2, <2>3 DEF ReceiveFrames
<1>15. ASSUME NEW d \in Devices, Device(d) PROVE OthersHaveLeft'
  <2>0. d \in Threads /\ d # Main
    BY DEF Threads
  <2>1. CASE DeviceCheck(d)
    BY <1>0, <2>0, <2>1 DEF DeviceCheck
  <2>2. CASE DeviceRead(d)
    BY <1>0, <2>0, <2>2 DEF DeviceRead
  <2>3. CASE DeviceFails(d)
    BY <1>0, <2>0, <2>3 DEF DeviceFails
  <2>4. CASE LockFilter(d, "lock", "silence")
    BY <1>0, <2>0, <2>4 DEF LockFilter
  <2>5. CASE InsertSilence(d)
    BY <1>0, <2>0, <2>5 DEF InsertSilence, Send, Unlock, ToGraph
  <2>6. CASE EncodeChunk(d)
    BY <1>0, <2>0, <2>6 DEF EncodeChunk, Send
  <2>7. CASE AddToGraph(d)
    BY <1>0, <2>0, <2>7 DEF AddToGraph, Unlock, ToGraph
  <2>. QED
    BY <1>14, <1>15, <2>0, <2>1, <2>2, <2>3, <2>4, <2>5, <2>6, <2>7
       DEF Device
<1>16. CASE Merged # {} /\ Mix
  <2>0. Amix \in Threads /\ Amix # Main
    BY <1>16 DEF Threads, Mixer
  <2>1. CASE AmixCheck
    BY <1>0, <2>0, <2>1 DEF AmixCheck
  <2>2. CASE LockFilter(Amix, "lock", "sink")
    BY <1>0, <2>0, <2>2 DEF LockFilter
  <2>3. CASE AmixTake
    BY <1>0, <2>0, <2>3 DEF AmixTake, Send, Unlock
  <2>. QED
    BY <1>14, <1>16, <2>0, <2>1, <2>2, <2>3 DEF Mix
<1>17. CASE SaverTask
  BY <1>0, <1>17 DEF SaverTask
<1>18. CASE UNCHANGED vars
  BY <1>18 DEF vars
<1>. QED
  BY <1>0, <1>1, <1>2, <1>3, <1>4, <1>5, <1>6, <1>7, <1>8, <1>9, <1>10, <1>11,
     <1>12, <1>13, <1>14, <1>15, <1>16, <1>17, <1>18
     DEF Next, MainLoop, Terminated

(* No save begins before the previous one has been collected.              *)
LEMMA SaveStep ==
    TypeOK /\ OneSaveAtATime /\ [Next]_vars => OneSaveAtATime'
<1> SUFFICES ASSUME TypeOK, OneSaveAtATime, [Next]_vars PROVE OneSaveAtATime'
  OBVIOUS
<1>. USE DEF TypeOK, OneSaveAtATime, signals, locks, devs, replays, Goto
<1>0. Main \in Threads
  BY DEF Threads
<1>1. CASE Sigint
  BY <1>0, <1>1 DEF Sigint
<1>2. CASE Sigusr1
  BY <1>0, <1>2 DEF Sigusr1
<1>3. CASE Sigusr2
  BY <1>0, <1>3 DEF Sigusr2
<1>4. CASE MainPoll
  BY <1>0, <1>4 DEF MainPoll, Send
<1>5. CASE MainPause
  BY <1>0, <1>5 DEF MainPause
<1>6. CASE MainToggle
  BY <1>0, <1>6 DEF MainToggle
<1>7. CASE MainCollect
  <2>0. pc'[Main] = "save" /\ UNCHANGED <<save_replay, saves>>
    BY <1>0, <1>7 DEF MainCollect
  <2>1. CASE saver = "ready"
    <3>1. saver' = "none" /\ copy' = 0 /\ printed' = printed \cup {path}
          /\ UNCHANGED <<path, streams, attempts>>
      BY <1>7, <2>1 DEF MainCollect, CollectSave
    <3>2. pc[Main] = "collect"
      BY <1>7 DEF MainCollect
    <3>3. attempts \in 1 .. attempts
      BY <2>1
    <3>4. printed' \subseteq 1 .. attempts
      BY <2>1, <3>1, <3>3
    <3>. QED
      BY <2>0, <2>1, <3>1, <3>2, <3>4
  <2>2. CASE saver # "ready"
    <3>1. UNCHANGED replays /\ pc[Main] = "collect"
      BY <1>7, <2>2 DEF MainCollect
    <3>. QED
      BY <2>0, <3>1
  <2>. QED
    BY <2>1, <2>2
<1>8. CASE MainSave
  BY <1>0, <1>8 DEF MainSave
<1>9. CASE MainSnapshot
  BY <1>0, <1>9 DEF MainSnapshot
<1>10. CASE MainOpen
  BY <1>0, <1>10 DEF MainOpen
<1>11. CASE MainStopping
  <2>0. pc'[Main] = "join" /\ UNCHANGED <<save_replay, saves>>
    BY <1>0, <1>11 DEF MainStopping
  <2>1. CASE saver = "ready"
    <3>1. saver' = "none" /\ copy' = 0 /\ printed' = printed \cup {path}
          /\ UNCHANGED <<path, streams, attempts>>
      BY <1>11, <2>1 DEF MainStopping, CollectSave
    <3>2. pc[Main] = "stopping"
      BY <1>11 DEF MainStopping
    <3>3. attempts \in 1 .. attempts
      BY <2>1
    <3>4. printed' \subseteq 1 .. attempts
      BY <2>1, <3>1, <3>3
    <3>. QED
      BY <2>0, <2>1, <3>1, <3>2, <3>4
  <2>2. CASE saver # "ready"
    <3>1. UNCHANGED replays /\ pc[Main] = "stopping"
      BY <1>11, <2>2 DEF MainStopping
    <3>. QED
      BY <2>0, <3>1
  <2>. QED
    BY <2>1, <2>2
<1>12. CASE MainJoin
  BY <1>0, <1>12 DEF MainJoin
<1>13. CASE MainTrailer
  BY <1>0, <1>13 DEF MainTrailer
<1>14. ASSUME NEW t \in Threads, ReceiveFrames(t) PROVE OneSaveAtATime'
  <2>1. CASE Drained(t)
    BY <1>0, <2>1 DEF Drained
  <2>2. CASE LockOut(t)
    BY <1>0, <2>2 DEF LockOut
  <2>3. CASE Write(t)
    BY <1>0, <2>3 DEF Write
  <2>. QED
    BY <1>14, <2>1, <2>2, <2>3 DEF ReceiveFrames
<1>15. ASSUME NEW d \in Devices, Device(d) PROVE OneSaveAtATime'
  <2>0. d \in Threads /\ d # Main
    BY DEF Threads
  <2>1. CASE DeviceCheck(d)
    BY <1>0, <2>0, <2>1 DEF DeviceCheck
  <2>2. CASE DeviceRead(d)
    BY <1>0, <2>0, <2>2 DEF DeviceRead
  <2>3. CASE DeviceFails(d)
    BY <1>0, <2>0, <2>3 DEF DeviceFails
  <2>4. CASE LockFilter(d, "lock", "silence")
    BY <1>0, <2>0, <2>4 DEF LockFilter
  <2>5. CASE InsertSilence(d)
    BY <1>0, <2>0, <2>5 DEF InsertSilence, Send, Unlock, ToGraph
  <2>6. CASE EncodeChunk(d)
    BY <1>0, <2>0, <2>6 DEF EncodeChunk, Send
  <2>7. CASE AddToGraph(d)
    BY <1>0, <2>0, <2>7 DEF AddToGraph, Unlock, ToGraph
  <2>. QED
    BY <1>14, <1>15, <2>0, <2>1, <2>2, <2>3, <2>4, <2>5, <2>6, <2>7
       DEF Device
<1>16. CASE Merged # {} /\ Mix
  <2>0. Amix \in Threads /\ Amix # Main
    BY <1>16 DEF Threads, Mixer
  <2>1. CASE AmixCheck
    BY <1>0, <2>0, <2>1 DEF AmixCheck
  <2>2. CASE LockFilter(Amix, "lock", "sink")
    BY <1>0, <2>0, <2>2 DEF LockFilter
  <2>3. CASE AmixTake
    BY <1>0, <2>0, <2>3 DEF AmixTake, Send, Unlock
  <2>. QED
    BY <1>14, <1>16, <2>0, <2>1, <2>2, <2>3 DEF Mix
<1>17. CASE SaverTask
  BY <1>0, <1>17 DEF SaverTask
<1>18. CASE UNCHANGED vars
  BY <1>18 DEF vars
<1>. QED
  BY <1>0, <1>1, <1>2, <1>3, <1>4, <1>5, <1>6, <1>7, <1>8, <1>9, <1>10, <1>11,
     <1>12, <1>13, <1>14, <1>15, <1>16, <1>17, <1>18
     DEF Next, MainLoop, Terminated

-----------------------------------------------------------------------------
(* The theorems.                                                           *)

LEMMA InitInvariant == Init => IInv
<1> SUFFICES ASSUME Init PROVE IInv
  OBVIOUS
<1>1. TypeOK
  <2>1. {running, save_replay, toggle_pause, paused, announced, unserved,
         wanted} \subseteq BOOLEAN
    BY DEF Init
  <2>2. MaxMissing \in Nat /\ MaxQueued \in Nat /\ MaxSaves \in Nat
          /\ MaxPauses \in Nat
    OBVIOUS
  <2>. QED
    BY <2>1, <2>2 DEF Init, TypeOK
<1>2. HoldersAreInside /\ OthersHaveLeft
  BY DEF Init, HoldersAreInside, OthersHaveLeft, InGraph, Threads
<1>3. OneSaveAtATime
  BY DEF Init, OneSaveAtATime, Threads
<1>. QED
  BY <1>1, <1>2, <1>3 DEF IInv

LEMMA Invariant == Spec => []IInv
<1>1. IInv /\ [Next]_vars => IInv'
  BY TypeStep, HolderStep, LeftStep, SaveStep DEF IInv
<1>. QED
  BY InitInvariant, <1>1, PTL DEF Spec

(* Every variable keeps to its type; no thread writes more packets than    *)
(* its encoder has (receive_frames).                                       *)
THEOREM RecorderTypeCorrect == Spec => []TypeOK
<1>1. IInv => TypeOK
  BY DEF IInv
<1>. QED
  BY Invariant, <1>1, PTL

(* Whatever the number of devices, one thread at a time is in the filter   *)
(* graph and one in the output, and none once the recording was closed.    *)
THEOREM RecorderExclusiveUse == Spec => []ExclusiveUse
<1>1. ASSUME IInv PROVE ExclusiveUse
  <2>1. ASSUME NEW t \in Threads, NEW u \in Threads, t # u
        PROVE  /\ ~(InGraph(t) /\ InGraph(u))
               /\ ~(pc[t] = "write" /\ pc[u] = "write")
    BY <1>1, <2>1 DEF IInv, HoldersAreInside
  <2>2. ASSUME output = "closed" \/ pc[Main] = "done", NEW t \in Threads
        PROVE  ~InGraph(t) /\ pc[t] # "write"
    <3>1. pc[t] \in {"done", "exit"}
      BY <1>1, <2>2 DEF IInv, OthersHaveLeft
    <3>. QED
      BY <3>1 DEF InGraph
  <2>. QED
    BY <2>1, <2>2 DEF ExclusiveUse
<1>. QED
  BY Invariant, <1>1, PTL

(* However many SIGUSR1s arrive when, the task that writes a replay reads  *)
(* what belongs to its save.                                               *)
THEOREM RecorderSaverOwnsItsInputs == Spec => []SaverOwnsItsInputs
<1>1. IInv => SaverOwnsItsInputs
  BY DEF IInv, OneSaveAtATime, SaverOwnsItsInputs
<1>. QED
  BY Invariant, <1>1, PTL

(* No path is printed before its file is complete, nor twice, nor without  *)
(* a SIGUSR1 for it.                                                       *)
THEOREM RecorderPrintedOncePerRequest == Spec => []PrintedOncePerRequest
<1>1. ASSUME IInv PROVE PrintedOncePerRequest
  <2>1. attempts \in Nat /\ saves \in Nat /\ attempts <= saves
    BY <1>1 DEF IInv, TypeOK, OneSaveAtATime
  <2>2. printed \subseteq 1 .. attempts
    BY <1>1 DEF IInv, OneSaveAtATime
  <2>3. IsFiniteSet(1 .. attempts) /\ Cardinality(1 .. attempts) = attempts
    <3>1. 1 \in Int /\ attempts \in Int
      BY <2>1
    <3>2. IsFiniteSet(1 .. attempts) /\ Cardinality(1 .. attempts) =
            IF 1 > attempts THEN 0 ELSE attempts - 1 + 1
      BY <3>1, FS_Interval, Zenon
    <3>. QED
      BY <2>1, <3>2
  <2>4. IsFiniteSet(printed) /\ Cardinality(printed) <= attempts
    BY <2>2, <2>3, FS_Subset
  <2>5. Cardinality(printed) \in Nat
    BY <2>4, FS_CardinalityType
  <2>6. Cardinality(printed) <= saves
    BY <2>1, <2>4, <2>5
  <2>7. saver # "none" => path \notin printed
    BY <1>1 DEF IInv, OneSaveAtATime
  <2>. QED
    BY <2>2, <2>6, <2>7 DEF PrintedOncePerRequest
<1>. QED
  BY Invariant, <1>1, PTL

(* Two saves never mix: the inputs of the task, and what is printed.       *)
THEOREM RecorderSavesDoNotMix == Spec => []SavesDoNotMix
<1>1. SaverOwnsItsInputs /\ PrintedOncePerRequest => SavesDoNotMix
  BY DEF SavesDoNotMix
<1>. QED
  BY <1>1, RecorderSaverOwnsItsInputs, RecorderPrintedOncePerRequest, PTL
=============================================================================
