--------------------------- MODULE MCPipewireAudio ---------------------------
(* A small instance of PipewireAudio for TLC: an application and a         *)
(* microphone that come and go, recorded on two tracks.                    *)
EXTENDS PipewireAudio

CONSTANTS game, mic, sink1, sink2     \* model values

SomeNodes == {game, mic}
TwoSinks == {sink1, sink2}

Names ==
    [n \in Nodes \cup Sinks |->
       CASE n = game -> "game" [] n = mic -> "mic"
         [] n = sink1 -> "sink1" [] n = sink2 -> "sink2"]

Types ==
    [n \in Nodes \cup Sinks |->
       IF n = game THEN "output" ELSE "device"]

AllPorts ==
    ({game} \X {"output"} \X Sides)
        \cup ({mic} \X {"capture"} \X Sides)
        \cup (TwoSinks \X {"playback"} \X Sides)

SomePorts == {p \in AllPorts : p[1] \in Nodes \cup Sinks}

ToSink(sink, names, inverted, type) ==
    [names |-> names, inverted |-> inverted, output_type |-> type,
     input |-> sink, input_type |-> "sink"]

(* -a "device:mic|app-inverse:chat" -a "app-inverse:game"                  *)
TwoTracks ==
    <<[sink |-> sink1,
       requests |-> <<ToSink("sink1", {"mic"}, FALSE, "device"),
                      ToSink("sink1", {"chat"}, TRUE, "output")>>],
      [sink |-> sink2,
       requests |-> <<ToSink("sink2", {"game"}, TRUE, "output")>>]>>
=============================================================================
