--------------------------- MODULE MCReplayBuffer ---------------------------
(* Small instances of ReplayBuffer for TLC.                                *)
EXTENDS ReplayBuffer

CONSTANTS a, b          \* audio tracks (model values)

NoAudio == {}
OneAudio == {a}
TwoAudio == {a, b}
=============================================================================
