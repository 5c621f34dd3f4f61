---------------------------- MODULE Damage_proofs ----------------------------
(***************************************************************************)
(* What is proved of damage tracking for every set of cursor positions and *)
(* any number of changes: a window's damage is never forgotten, and damage *)
(* at the server is announced.                                             *)
(***************************************************************************)
EXTENDS Damage, TLAPS

USE DamageAssumption

(* A frame has a content and a cursor, and nothing else.                   *)
FrameIsRecord ==
    frame \in [content : -1 .. MaxChanges, cursor : Inside \cup Outside]

DamageIInv ==
    DamageTypeOK /\ FrameIsRecord /\ NoLostDamage /\ DamageIsAnnounced

-----------------------------------------------------------------------------
LEMMA DamageInitInvariant == DamageInit => DamageIInv
<1> SUFFICES ASSUME DamageInit PROVE DamageIInv
  OBVIOUS
<1>1. -1 \in -1 .. MaxChanges
  OBVIOUS
<1>2. frame = [content |-> -1, cursor |-> cursor]
        /\ cursor \in Inside \cup Outside
  BY DEF DamageInit
<1>3. FrameIsRecord
  BY <1>1, <1>2 DEF FrameIsRecord
<1>4. DamageTypeOK
  <2>1. frame.content \in -1 .. MaxChanges
          /\ frame.cursor \in Inside \cup Outside
    BY <1>3 DEF FrameIsRecord
  <2>2. {event, old_event, damaged} \subseteq BOOLEAN
    BY DEF DamageInit
  <2>3. track_type \in Tracks /\ region = {} /\ pc = "events"
          /\ {cursor, position} \subseteq Inside \cup Outside
    BY DEF DamageInit
  <2>4. screen \in 0 .. MaxChanges /\ moves \in 0 .. MaxMoves
    BY DEF DamageInit
  <2>. QED
    BY <2>1, <2>2, <2>3, <2>4 DEF DamageTypeOK
<1>5. NoLostDamage /\ DamageIsAnnounced
  BY DEF DamageInit, NoLostDamage, DamageIsAnnounced
<1>. QED
  BY <1>3, <1>4, <1>5 DEF DamageIInv

LEMMA DamageStepInvariant ==
    DamageIInv /\ [DamageNext]_damageVars => DamageIInv'
<1> SUFFICES ASSUME DamageIInv, [DamageNext]_damageVars PROVE DamageIInv'
  OBVIOUS
<1>. USE DEF DamageIInv, DamageTypeOK, FrameIsRecord, NoLostDamage,
             DamageIsAnnounced
<1>1. CASE ContentChanges
  <2>1. region' = region \cup {"target"} /\ event' \in BOOLEAN /\ event'
          /\ old_event' = old_event
    BY <1>1 DEF ContentChanges, AddDamage
  <2>2. screen' \in 0 .. MaxChanges
    BY <1>1 DEF ContentChanges
  <2>3. UNCHANGED <<track_type, cursor, moves, damaged, position, pc, frame>>
    BY <1>1 DEF ContentChanges
  <2>. QED
    BY <2>1, <2>2, <2>3
<1>2. CASE DesktopChanges
  BY <1>2 DEF DesktopChanges, AddDamage
<1>3. CASE CursorMoves
  BY <1>3 DEF CursorMoves, server_damage
<1>4. CASE OnDamageEvent
  <2>1. region' = {} /\ event' = FALSE
    BY <1>4 DEF OnDamageEvent
  <2>2. damaged' \in BOOLEAN
    <3>1. CASE track_type = "window"
      BY <1>4, <3>1 DEF OnDamageEvent
    <3>2. CASE track_type # "window"
      <4>1. damaged' = ("target" \in region)
        BY <1>4, <3>2 DEF OnDamageEvent
      <4>. QED
        BY <4>1, SMT
    <3>. QED
      BY <3>1, <3>2
  <2>3. track_type = "window" => damaged'
    BY <1>4 DEF OnDamageEvent
  <2>4. UNCHANGED <<track_type, screen, cursor, moves, old_event, position,
                    pc, frame>>
    BY <1>4 DEF OnDamageEvent
  <2>. QED
    BY <2>1, <2>2, <2>3, <2>4
<1>5. CASE DamageTick
  BY <1>5 DEF DamageTick, server_damage
<1>6. CASE SkipFrame
  BY <1>6 DEF SkipFrame, server_damage
<1>7. CASE ClearDamage
  BY <1>7 DEF ClearDamage, server_damage
<1>8. CASE Capture
  BY <1>8 DEF Capture, server_damage
<1>9. CASE OnOldDamageEvent
  BY <1>9 DEF OnOldDamageEvent
<1>10. CASE SetTargetWindow
  <2>1. region' = {} /\ damaged' = TRUE /\ event' = FALSE
          /\ old_event' \in BOOLEAN
    BY <1>10 DEF SetTargetWindow
  <2>2. screen' \in 0 .. MaxChanges /\ cursor' \in Inside \cup Outside
    BY <1>10 DEF SetTargetWindow
  <2>3. UNCHANGED <<track_type, moves, position, pc, frame>>
    BY <1>10 DEF SetTargetWindow
  <2>. QED
    BY <2>1, <2>2, <2>3
<1>11. CASE UNCHANGED damageVars
  BY <1>11 DEF damageVars, server_damage
<1>. QED
  BY <1>1, <1>2, <1>3, <1>4, <1>5, <1>6, <1>7, <1>8, <1>9,
     <1>10, <1>11 DEF DamageNext

LEMMA DamageInvariant == DamageSpec => []DamageIInv
BY DamageInitInvariant, DamageStepInvariant, PTL DEF DamageSpec

-----------------------------------------------------------------------------
(* Every variable keeps to its type (damage.c and the main loop).          *)
THEOREM DamageTypeCorrect == DamageSpec => []DamageTypeOK
<1>1. DamageIInv => DamageTypeOK
  BY DEF DamageIInv
<1>. QED
  BY DamageInvariant, <1>1, PTL

(* In whatever order events, ticks, clears and captures come, a change of  *)
(* a window that is in no frame yet is noted somewhere.                    *)
THEOREM DamageNotLost == DamageSpec => []NoLostDamage
<1>1. DamageIInv => NoLostDamage
  BY DEF DamageIInv
<1>. QED
  BY DamageInvariant, <1>1, PTL

(* The server's damage never waits without an event to tell of it.         *)
THEOREM DamageAnnounced == DamageSpec => []DamageIsAnnounced
<1>1. DamageIInv => DamageIsAnnounced
  BY DEF DamageIInv
<1>. QED
  BY DamageInvariant, <1>1, PTL
=============================================================================
