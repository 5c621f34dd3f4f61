------------------------------ MODULE MCDamage ------------------------------
(* Small instances of Damage for TLC.                                      *)
EXTENDS Damage

CONSTANTS c1, c2, c3      \* cursor positions (model values)

InsidePositions == {c1, c2}
OutsidePositions == {c3}
NoPositions == {}
=============================================================================
