SPECIFICATION Spec
CONSTANTS
    game = game
    mic = mic
    sink1 = sink1
    sink2 = sink2
    Nodes <- SomeNodes
    Sinks <- TwoSinks
    Name <- Names
    Type <- Types
    Ports <- SomePorts
    Tracks <- TwoTracks
    MaxNodes = 4
    MaxPorts = 7
    MaxChanges = 1
INVARIANTS
    TypeOK
    ArraysFollowServer
    RequestedLinks
    MainWaitsForServer
