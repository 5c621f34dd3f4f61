----------------------------- MODULE MCBackends -----------------------------
(* A small instance of every part for TLC.                                 *)
EXTENDS Backends

CONSTANTS c1, c2, c3      \* cursor positions (model values)

InsidePositions == {c1, c2}
OutsidePositions == {c3}
NoPositions == {}

\* planes of a buffer: NV12 and an RGB format
TwoFormats == <<2, 1>>
=============================================================================
