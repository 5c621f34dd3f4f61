----------------------------- MODULE MCRecorder -----------------------------
(* Small instances of Recorder for TLC.                                    *)
EXTENDS Recorder

CONSTANTS d1, d2        \* audio devices (model values)

OneDevice == {d1}
TwoDevices == {d1, d2}
NoDevice == {}
=============================================================================
